---- MODULE Spec2Model ----
(***************************************************************************)
(* State-machine model of the Instagram webhook conversation engine        *)
(* (services/webhook_service.py and the repositories it calls).            *)
(*                                                                         *)
(* One webhook request is handled by one handler slot.  A request walks    *)
(* through the steps of _handle_post_request: ingress checks and the       *)
(* ledger read (Receive), the ledger write of mark_message_as_processed    *)
(* (MarkQuery, MarkCommit), the lookups of _handle_user_message_flow       *)
(* (FlowLookup, FlowCreate) and the rest of the flow (FlowAct).  Database  *)
(* tables are shared by all handlers; everything else is request-local.    *)
(***************************************************************************)
EXTENDS Integers, Sequences, FiniteSets, TLC

(***************************************************************************)
(* Bounds of the model.                                                    *)
(***************************************************************************)
MaxDeliveries == 3      \* requests accepted in one behaviour of Spec
MaxConcDeliveries == 3  \* requests accepted in one behaviour of SpecConc
MaxCount == 2           \* history counters saturate here
MaxSendCalls == 2       \* calls of send_instagram_message in one behaviour of SpecSend
MaxAttempts == 3        \* the counters of one send call saturate here
MaxSummaryRequests == 2 \* requests accepted in one behaviour of SpecSummary

Handlers == {"a", "b"}             \* request slots; Spec uses only the first
SeqHandlers == {"a"}
Senders == {"u1"}                  \* sender usernames
Tenants == {"t1"}                  \* brideside vendor ids
BothTenants == {"t1", "t2"}
MessageIds == {"m1"}               \* the message id that may be delivered again
OtherId == "mx"                    \* any id delivered once: its row is never read again
MidInputs == MessageIds \cup {OtherId, ""}  \* message.get("mid", "")

None == "~"                        \* Python None / absent kwarg

(***************************************************************************)
(* Values of the collected fields.  Blank strings stand for None, "" and   *)
(* whitespace-only text, which the code treats alike (`not v or            *)
(* v.strip() == ""`).                                                      *)
(***************************************************************************)
\* Date strings as the extraction collaborator may return them:
\*   "D1"  already canonical YYYY-MM-DD
\*   "FY"  a day-month-year text such as "30 July 2025" (canonical form "D2")
\*   "NY"  a day-month text without a year such as "15th March"
\*   "MD"  another text without a year such as "March 15" or "15/03"
\*         (read by dateutil with the current year: canonical form "D2")
CanonicalDates == {"D1", "D2"}

RequiredFields == {"event_date", "venue", "phone_number"}
AskedFlagOf == [event_date |-> "event_date_asked", venue |-> "venue_asked",
                phone_number |-> "contact_number_asked"]

Min(a, b) == IF a < b THEN a ELSE b
Bump(n) == Min(n + 1, MaxCount)
Truthy(v) == v \notin {None, ""}

\* _validate_and_format_date: canonical text is returned as is, a
\* "<day> <month name>" text without a year is rejected, every other text is
\* re-formatted to YYYY-MM-DD when strptime or dateutil can read it; dateutil
\* fills a missing year with the current one.
_validate_and_format_date(date_str) ==
    CASE date_str \in {None, ""} -> ""
      [] date_str \in CanonicalDates -> date_str
      [] date_str = "NY" -> ""
      [] date_str = "FY" -> "D2"
      [] date_str = "MD" -> "D2"
      [] OTHER -> ""

(***************************************************************************)
(* The deals table (models/deal.py) and repository/deal_repository.py.     *)
(***************************************************************************)
NewDeal(id, deal_name, contacted_to) ==
    [id |-> id, name |-> deal_name, contacted_to |-> contacted_to,
     user_name |-> "", event_type |-> "", event_date |-> "", venue |-> "",
     phone_number |-> "",
     final_thank_you_sent |-> FALSE, contact_number_asked |-> FALSE,
     event_date_asked |-> FALSE, venue_asked |-> FALSE]

\* kwargs of the update functions: a function from the keyword names passed
\* to their values; Get is kwargs.get(k).
Get(kw, k) == IF k \in DOMAIN kw THEN kw[k] ELSE None
Kw1(k, v) == [x \in {k} |-> v]
\* {k: v for k, v in fields.items() if v and v.strip()}
NonEmpty(fields) == [k \in {x \in DOMAIN fields : Truthy(fields[x])} |-> fields[k]]

\* What the DATE column holds after a commit that assigned `v` to it.  A
\* text that is not YYYY-MM-DD is not a date for MySQL: in strict SQL mode
\* the statement fails, otherwise a zero date is stored, which the driver
\* reads back as None.
DateColumnAccepts(v) == v \in CanonicalDates \cup {""}
DateColumnStores(v) == IF v \in CanonicalDates THEN v ELSE ""

\* Rows of `deals` matching filter_by(name=, contacted_to=)
DealRows(tbl, user_name, brideside_user_id) ==
    {i \in 1..Len(tbl) : tbl[i].name = user_name /\ tbl[i].contacted_to = brideside_user_id}
deal_exists(tbl, deal_name, contacted_to) == DealRows(tbl, deal_name, contacted_to) # {}
\* .first(): the id of the matching row with the smallest id; NoDeal for None
NoDeal == 0
get_deal_by_user_name(tbl, user_name, brideside_user_id) ==
    LET rows == DealRows(tbl, user_name, brideside_user_id)
    IN IF rows = {} THEN NoDeal
       ELSE CHOOSE i \in rows : \A j \in rows : i <= j

\* create_deal: INSERT under uq_deal_name_contacted_to; returns the new id,
\* or None when the commit raises (the constraint is violated).
\* (a table without the constraint uq_deal_name_contacted_to)
NoUniqueConstraint(tbl, deal_name, contacted_to) == FALSE
UniqueDealViolated(tbl, deal_name, contacted_to) == deal_exists(tbl, deal_name, contacted_to)
create_deal(tbl, deal_name, contacted_to) ==
    IF UniqueDealViolated(tbl, deal_name, contacted_to)
    THEN [id |-> NoDeal, tbl |-> tbl]
    ELSE [id |-> Len(tbl) + 1,
          tbl |-> Append(tbl, NewDeal(Len(tbl) + 1, deal_name, contacted_to))]

Blank(v) == v \in {None, ""}

\* The assignments update_deal_fields makes to the row before committing.
UpdateAssign(d, kw) ==
    [d EXCEPT
       !.user_name = IF Truthy(Get(kw, "full_name")) /\ Blank(d.user_name)
                     THEN kw["full_name"] ELSE @,
       !.event_type = IF Truthy(Get(kw, "event_type")) /\ Blank(d.event_type)
                      THEN kw["event_type"] ELSE @,
       !.event_date = IF Truthy(Get(kw, "event_date")) THEN kw["event_date"] ELSE @,
       !.venue = IF Truthy(Get(kw, "venue")) THEN kw["venue"] ELSE @,
       !.phone_number = IF Truthy(Get(kw, "phone_number")) THEN kw["phone_number"] ELSE @,
       !.final_thank_you_sent = IF "final_thank_you_sent" \in DOMAIN kw
                                THEN kw["final_thank_you_sent"] ELSE @,
       !.contact_number_asked = IF "contact_number_asked" \in DOMAIN kw
                                THEN kw["contact_number_asked"] ELSE @,
       !.event_date_asked = IF "event_date_asked" \in DOMAIN kw
                            THEN kw["event_date_asked"] ELSE @,
       !.venue_asked = IF "venue_asked" \in DOMAIN kw
                       THEN kw["venue_asked"] ELSE @]

\* The assignments update_deal_fields_force makes: every truthy value
\* overwrites, every flag passed is written.
ForceAssign(d, kw) ==
    [UpdateAssign(d, kw) EXCEPT
       !.user_name = IF Truthy(Get(kw, "full_name")) THEN kw["full_name"] ELSE @,
       !.event_type = IF Truthy(Get(kw, "event_type")) THEN kw["event_type"] ELSE @]

\* session.commit() of an updated row: [ok, tbl].  ok is the function's
\* return value (False after the rollback of a failed commit).
Commit(tbl, deal_id, d, strict) ==
    IF deal_id \notin 1..Len(tbl) THEN [ok |-> FALSE, tbl |-> tbl]
    ELSE IF ~DateColumnAccepts(d.event_date) /\ strict THEN [ok |-> FALSE, tbl |-> tbl]
    ELSE [ok |-> TRUE,
          tbl |-> [tbl EXCEPT ![deal_id] = [d EXCEPT !.event_date = DateColumnStores(@)]]]

update_deal_fields(tbl, deal_id, kw, strict) ==
    IF deal_id \notin 1..Len(tbl) THEN [ok |-> FALSE, tbl |-> tbl]
    ELSE Commit(tbl, deal_id, UpdateAssign(tbl[deal_id], kw), strict)

update_deal_fields_force(tbl, deal_id, kw, strict) ==
    IF deal_id \notin 1..Len(tbl) THEN [ok |-> FALSE, tbl |-> tbl]
    ELSE Commit(tbl, deal_id, ForceAssign(tbl[deal_id], kw), strict)

\* _get_missing_fields_from_deal
_get_missing_fields_from_deal(deal) ==
    {f \in RequiredFields : Blank(deal[f])}

(***************************************************************************)
(* Outbound texts.  A text is kept as what the code tests about it: which  *)
(* sentinel or fixed sentence it is and which request keywords occur in    *)
(* it.                                                                     *)
(*   kind "THANKS"  is exactly "Thank you. Will connect shortly!"          *)
(*   kind "TEXT"    any other non-empty text; p/d/v are its keywords       *)
(*   kind "EMPTY"   the empty string                                       *)
(*   p = "word": one of phone/contact/number occurs, p = "contact number": *)
(*   that phrase occurs; d: date/when occurs; v: venue/location/where.     *)
(***************************************************************************)
Text(p, d, v) == [kind |-> "TEXT", p |-> p, d |-> d, v |-> v]
Fixed(kind) == [kind |-> kind, p |-> "none", d |-> FALSE, v |-> FALSE]
NO_MESSAGE == Fixed("NO_MESSAGE")
GREETING_WITH_DATA == Fixed("GREETING_WITH_DATA")
ThankYou == Fixed("THANKS")       \* "Thank you. Will connect shortly!"
FallbackText == Text("none", FALSE, FALSE)  \* "Thank you for your message! Our team will get back to you soon."
Texts == {Text("none", FALSE, FALSE), Text("word", FALSE, FALSE),
          Text("none", FALSE, TRUE), Text("contact number", TRUE, TRUE)}
Messages == {NO_MESSAGE, GREETING_WITH_DATA, ThankYou} \cup Texts

\* 'phone' in m.lower() or 'contact' in m.lower() or 'number' in m.lower()
MentionsPhone(m) == m.p # "none"
\* 'contact number' in m.lower()
MentionsContactNumber(m) == m.p = "contact number"
\* 'event date' in m.lower() or 'date' in m.lower() or 'when' in m.lower()
MentionsDate(m) == m.d
\* 'venue' in m.lower() or 'location' in m.lower() or 'where' in m.lower()
MentionsVenue(m) == m.v

\* Kinds of texts the handler composes itself
FINAL == "FINAL"                  \* "Thank you for sharing all the details! will connect shortly!"
HELLO_CONNECT == "HELLO_CONNECT"  \* "Hello! Thanks for reaching out. Will connect shortly!"
HELLO_TEXT == "HELLO_TEXT"        \* "Hello! Thanks for reaching out. " + a text
GREETING_SEQ == "GREETING_SEQ"    \* send_initial_greetings_message
DETAILS_TEXT == "DETAILS_TEXT"    \* the two sentences of the fallback heuristic
AckKinds == {FINAL, "THANKS", HELLO_CONNECT}

(***************************************************************************)
(* What get_response_with_json returns: always a dict (json.loads of the   *)
(* outermost {...} or one of the literal dicts), which may lack            *)
(* message_to_be_sent.                                                     *)
(***************************************************************************)
Response(has, m, csd, cvq, greet, n, t, dt, v, ph) ==
    [has_message |-> has, message_to_be_sent |-> m,
     contains_structured_data |-> csd, contains_valid_query |-> cvq,
     is_greeting_message |-> greet,
     full_name |-> n, event_type |-> t, event_date |-> dt, venue |-> v,
     phone_number |-> ph]

\* response.get(f, '').strip() is non-empty
Provided(response, f) == Truthy(response[f])
ProvidedFields(response) == {f \in RequiredFields : Provided(response, f)}

\* extracted_fields = {..., 'event_date': _validate_and_format_date(...), ...}
\* reduced to its non-empty entries (changed_fields, missing_field_updates and
\* fallback_extracted_fields together are exactly those)
ExtractedFields(response) ==
    NonEmpty([full_name |-> response.full_name, event_type |-> response.event_type,
              event_date |-> _validate_and_format_date(response.event_date),
              venue |-> response.venue, phone_number |-> response.phone_number])
\* the same dict built from the raw values (`if event_date: fields[...] = event_date`)
RawFields(response) ==
    NonEmpty([full_name |-> response.full_name, event_type |-> response.event_type,
              event_date |-> response.event_date,
              venue |-> response.venue, phone_number |-> response.phone_number])

\* contains_structured_data after the auto-correction
StructuredData(response) ==
    response.contains_structured_data \/ ProvidedFields(response) # {}

(***************************************************************************)
(* _handle_user_message_flow.  Each branch is an operator from the tables  *)
(* and the collaborator's answers to [tbl, out, ok]: the deals table after *)
(* the branch, the texts sent (in order) and the flow's success flag.      *)
(***************************************************************************)
AskedFields(d) == {f \in RequiredFields : d[AskedFlagOf[f]]}
FlagKw(fields, val) == [k \in {AskedFlagOf[f] : f \in fields} |-> val]
Result(tbl, out, ok) == [tbl |-> tbl, out |-> out, ok |-> ok]

\* flags_to_reset, all_asked_columns_will_be_false, should_block_message
FlagsToReset(d, missing_fields, response) ==
    {f \in AskedFields(d) : Provided(response, f) /\ f \in missing_fields}
AllAskedWillBeFalse(d, missing_fields, response) ==
    AskedFields(d) \subseteq FlagsToReset(d, missing_fields, response)
ShouldBlockMessage(d, missing_fields, response) ==
    \E f \in AskedFields(d) : f \in missing_fields /\ ~Provided(response, f)

\* `for flag_name in flags_to_reset: update_deal_fields(deal.id, <flag>=False)`
\* and the _reset_*_asked_flag helpers
\* (a reset that clears final_thank_you_sent together with the asked flags)
ResetEveryFlag(tbl, deal_id, fields, strict) ==
    IF fields = {} THEN tbl
    ELSE update_deal_fields(tbl, deal_id,
                            [k \in {AskedFlagOf[f] : f \in fields} \cup {"final_thank_you_sent"} |-> FALSE],
                            strict).tbl
ResetAskedFlags(tbl, deal_id, fields, strict) ==
    IF fields = {} THEN tbl
    ELSE update_deal_fields(tbl, deal_id, FlagKw(fields, FALSE), strict).tbl
\* the `if <keyword> in message_lower and <field> in missing_fields` updates
KeywordFields(m, missing_fields, phoneMentioned) ==
    {f \in missing_fields : \/ (f = "phone_number" /\ phoneMentioned)
                             \/ (f = "event_date" /\ MentionsDate(m))
                             \/ (f = "venue" /\ MentionsVenue(m))}
SetAskedFlags(tbl, deal_id, fields, strict) ==
    IF fields = {} THEN tbl
    ELSE update_deal_fields(tbl, deal_id, FlagKw(fields, TRUE), strict).tbl

\* The branch "asked but not provided": save what was extracted, reset the
\* flags of the fields provided, send nothing.
BlockedReply(tbl, deal_id, missing_fields, response, strict) ==
    LET fields_to_update == ExtractedFields(response)
        t1 == IF DOMAIN fields_to_update # {}
              THEN update_deal_fields(tbl, deal_id, fields_to_update, strict).tbl
              ELSE tbl
        t2 == ResetAskedFlags(t1, deal_id,
                              FlagsToReset(tbl[deal_id], missing_fields, response), strict)
    IN Result(t2, << >>, TRUE)

\* The regenerated reply is asked for when the save filled some but not all
\* of the missing fields.
SavedFields(tbl, deal_id, missing_fields, response, strict) ==
    LET fields_to_update == ExtractedFields(response)
    IN IF missing_fields = {}
       THEN update_deal_fields_force(tbl, deal_id, fields_to_update, strict)
       ELSE update_deal_fields(tbl, deal_id, fields_to_update, strict)

\* "Hello! Thanks for reaching out" combined with the collaborator's text:
\* asked flags from the text's keywords, the send, the completion flag when
\* the text is the thank-you sentence.
CombinedGreeting(tbl, deal_id, missing_fields, original_message, strict) ==
    LET t2 == SetAskedFlags(tbl, deal_id,
                  KeywordFields(original_message, missing_fields,
                                MentionsContactNumber(original_message)), strict)
        combined == IF original_message = ThankYou \/ missing_fields = {}
                    THEN HELLO_CONNECT ELSE HELLO_TEXT
        t3 == IF original_message = ThankYou
              THEN update_deal_fields(t2, deal_id, Kw1("final_thank_you_sent", TRUE), strict).tbl
              ELSE t2
    IN Result(t3, <<combined>>, TRUE)

\* Steps after `message_to_send` is settled: the thank-you save of raw
\* fields, the completion flag, the greeting relay, the send and the asked
\* flags set from the text sent.
SendReply(tbl, deal_id, missing_fields, response, message_to_send, fields_to_update, strict) ==
    LET raw == RawFields(response)
        t1 == IF /\ StructuredData(response) /\ DOMAIN fields_to_update = {}
                 /\ (message_to_send = ThankYou \/ response.is_greeting_message)
                 /\ DOMAIN raw # {}
              THEN update_deal_fields(tbl, deal_id, raw, strict).tbl
              ELSE tbl
        original_message == response.message_to_be_sent
    IN IF message_to_send = ThankYou
       THEN LET t2 == update_deal_fields(t1, deal_id, Kw1("final_thank_you_sent", TRUE), strict).tbl
                t3 == SetAskedFlags(t2, deal_id,
                          KeywordFields(message_to_send, missing_fields, MentionsPhone(message_to_send)), strict)
            IN Result(t3, <<"THANKS">>, TRUE)
       ELSE IF message_to_send = GREETING_WITH_DATA
       THEN IF original_message.kind \notin {"EMPTY", "GREETING_WITH_DATA"}
            THEN CombinedGreeting(t1, deal_id, missing_fields, original_message, strict)
            ELSE Result(t1, <<GREETING_SEQ>>, TRUE)
       ELSE Result(SetAskedFlags(t1, deal_id,
                       KeywordFields(message_to_send, missing_fields, MentionsPhone(message_to_send)), strict),
                   <<message_to_send.kind>>, TRUE)

\* The essential-details check made before the collaborator is called
\* (registered sender, and unregistered sender whose deal exists).
\* (the check without the duplicate-thank-you guard)
AcknowledgeAgain(tbl, deal_id, final_thank_you_sent, strict) ==
    Result(update_deal_fields(tbl, deal_id, Kw1("final_thank_you_sent", TRUE), strict).tbl,
           <<FINAL>>, TRUE)
CompleteDealReply(tbl, deal_id, final_thank_you_sent, strict) ==
    IF ~final_thank_you_sent
    THEN Result(update_deal_fields(tbl, deal_id, Kw1("final_thank_you_sent", TRUE), strict).tbl,
                <<FINAL>>, TRUE)
    ELSE Result(tbl, << >>, TRUE)

\* The regenerated reply is requested only when the save filled some but
\* not all of the fields missing before it.
RegenerateRequested(tbl, deal_id, missing_fields, response, strict) ==
    /\ response.has_message
    /\ response.message_to_be_sent # NO_MESSAGE
    /\ LET d == tbl[deal_id]
       IN AskedFields(d) # {} /\ ~AllAskedWillBeFalse(d, missing_fields, response)
            => ~ShouldBlockMessage(d, missing_fields, response)
    /\ LET fields_to_update == ExtractedFields(response)
           saved == SavedFields(tbl, deal_id, missing_fields, response, strict)
           updated_missing_fields == _get_missing_fields_from_deal(saved.tbl[deal_id])
       IN /\ DOMAIN fields_to_update # {}
          /\ saved.ok
          /\ ~(missing_fields # {} /\ updated_missing_fields = {})
          /\ missing_fields # updated_missing_fields

\* Registered sender whose deal exists and misses a required field:
\* the branch after the first collaborator call.
ExistingDealReply(tbl, deal_id, missing_fields, response, updated_response, strict) ==
    IF ~response.has_message
    THEN Result(tbl, <<FallbackText.kind>>, TRUE)
    ELSE
    LET d == tbl[deal_id]
        checked == AskedFields(d) # {} /\ ~AllAskedWillBeFalse(d, missing_fields, response)
        t0 == IF checked
              THEN ResetAskedFlags(tbl, deal_id, FlagsToReset(d, missing_fields, response), strict)
              ELSE tbl
        fields_to_update == ExtractedFields(response)
    IN IF checked /\ ShouldBlockMessage(d, missing_fields, response)
       THEN BlockedReply(tbl, deal_id, missing_fields, response, strict)
       ELSE IF response.message_to_be_sent = NO_MESSAGE
       THEN Result(t0, << >>, TRUE)
       ELSE IF DOMAIN fields_to_update = {}
       THEN SendReply(t0, deal_id, missing_fields, response, response.message_to_be_sent,
                      fields_to_update, strict)
       ELSE
       LET saved == SavedFields(t0, deal_id, missing_fields, response, strict)
           updated_missing_fields == _get_missing_fields_from_deal(saved.tbl[deal_id])
           completed == missing_fields # {} /\ updated_missing_fields = {}
           message_to_send ==
               IF completed THEN ThankYou
               ELSE IF missing_fields # updated_missing_fields /\ updated_response.has_message
               THEN updated_response.message_to_be_sent
               ELSE response.message_to_be_sent
           t2 == IF {"full_name", "phone_number"} \cap DOMAIN fields_to_update # {}
                 THEN ResetAskedFlags(saved.tbl, deal_id,
                                      RequiredFields \cap DOMAIN fields_to_update, strict)
                 ELSE saved.tbl
           \* the second save repeats the values of the first
           t3 == IF {"event_type", "event_date", "venue"} \cap DOMAIN fields_to_update # {}
                 THEN update_deal_fields(t2, deal_id, fields_to_update, strict).tbl
                 ELSE t2
       IN IF ~saved.ok
          THEN SendReply(t0, deal_id, missing_fields, response, response.message_to_be_sent,
                         fields_to_update, strict)
          ELSE SendReply(t3, deal_id, updated_missing_fields, response, message_to_send,
                         fields_to_update, strict)

\* message_to_send = response.get('message_to_be_sent', <fallback text>)
MessageOrFallback(response) ==
    IF response.has_message THEN response.message_to_be_sent ELSE FallbackText
\* response.get('message_to_be_sent', '')
MessageOrEmpty(response) ==
    IF response.has_message THEN response.message_to_be_sent ELSE Fixed("EMPTY")

\* contact_number_asked is set before anything is sent when the reply is not
\* a greeting and names the phone (missing_fields holds all three fields)
AskPhoneBeforeSend(tbl, deal_id, response, strict) ==
    IF /\ ~response.is_greeting_message
       /\ MessageOrFallback(response) # GREETING_WITH_DATA
       /\ MentionsPhone(MessageOrFallback(response))
    THEN SetAskedFlags(tbl, deal_id, {"phone_number"}, strict)
    ELSE tbl

\* update_deal_fields(deal_id, **fields) followed by the flag resets, which
\* sit under `if 'phone_number' in fields_to_update`
SaveWithPhoneResets(tbl, deal_id, fields, strict) ==
    IF DOMAIN fields = {} THEN tbl
    ELSE LET u == update_deal_fields(tbl, deal_id, fields, strict)
         IN IF u.ok /\ "phone_number" \in DOMAIN fields
            THEN ResetAskedFlags(u.tbl, deal_id, RequiredFields \cap DOMAIN fields, strict)
            ELSE u.tbl
\* the same with the resets under `'full_name' in f or 'phone_number' in f`,
\* followed by the second save of the same values
SaveWithNameOrPhoneResets(tbl, deal_id, fields, strict) ==
    IF DOMAIN fields = {} THEN tbl
    ELSE LET u == update_deal_fields(tbl, deal_id, fields, strict)
             t2 == IF {"full_name", "phone_number"} \cap DOMAIN fields # {}
                   THEN ResetAskedFlags(u.tbl, deal_id, RequiredFields \cap DOMAIN fields, strict)
                   ELSE u.tbl
         IN IF ~u.ok THEN tbl
            ELSE IF {"event_type", "event_date", "venue"} \cap DOMAIN fields # {}
            THEN update_deal_fields(t2, deal_id, fields, strict).tbl
            ELSE t2

\* What the keyword heuristics find in the inbound text: whether
\* contains_event_details holds and what _extract_basic_info returns.
BasicInfo(event_details, n, t, dt, v, ph) ==
    [event_details |-> event_details,
     fields |-> [full_name |-> n, event_type |-> t, event_date |-> dt, venue |-> v,
                 phone_number |-> ph]]
NoEventDetails == BasicInfo(FALSE, "", "", "", "", "")
BasicFields(basic) ==
    NonEmpty([basic.fields EXCEPT !.event_date = _validate_and_format_date(@)])

\* Unregistered sender, no deal: the branch after create_deal and the
\* collaborator call.  `deal` (read right after create_deal) has no flag set
\* and missing_fields starts as all three required fields.
NewDealReply(tbl, deal_id, response, basic, strict) ==
    LET message_to_send == MessageOrFallback(response)
        original_message == MessageOrEmpty(response)
        contains_structured_data == StructuredData(response)
        raw == RawFields(response)
        original_asked == AskedFields(tbl[deal_id])
        t1 == AskPhoneBeforeSend(tbl, deal_id, response, strict)
        t2 == IF contains_structured_data
              THEN SaveWithPhoneResets(t1, deal_id, raw, strict) ELSE t1
        final(t) == update_deal_fields(t, deal_id, Kw1("final_thank_you_sent", TRUE), strict).tbl
    IN IF \E f \in original_asked : ~Provided(response, f)
       THEN Result(t2, << >>, TRUE)
       ELSE IF message_to_send = GREETING_WITH_DATA
       THEN Result(IF contains_structured_data
                   THEN SaveWithPhoneResets(t2, deal_id, raw, strict) ELSE t2,
                   <<GREETING_SEQ>>, TRUE)
       ELSE IF response.is_greeting_message
       THEN IF ~contains_structured_data THEN Result(t2, <<GREETING_SEQ>>, TRUE)
            ELSE LET u == IF DOMAIN raw # {}
                          THEN update_deal_fields(t2, deal_id, raw, strict)
                          ELSE [ok |-> FALSE, tbl |-> t2]
                     missing_fields == IF u.ok THEN _get_missing_fields_from_deal(u.tbl[deal_id])
                                       ELSE RequiredFields
                 IN IF u.ok /\ missing_fields = {}
                    THEN Result(final(u.tbl), <<HELLO_CONNECT>>, TRUE)
                    ELSE IF original_message = NO_MESSAGE THEN Result(u.tbl, << >>, TRUE)
                    ELSE IF original_message.kind # "EMPTY"
                    THEN CombinedGreeting(u.tbl, deal_id, missing_fields, original_message, strict)
                    ELSE Result(u.tbl, <<GREETING_SEQ>>, TRUE)
       ELSE IF message_to_send = NO_MESSAGE THEN Result(t2, << >>, TRUE)
       ELSE IF contains_structured_data
       THEN LET t3 == IF DOMAIN raw # {}
                      THEN update_deal_fields(t2, deal_id, raw, strict).tbl ELSE t2
            IN IF message_to_send = ThankYou
               THEN Result(final(t3), <<HELLO_CONNECT>>, TRUE)
               ELSE Result(t3, <<HELLO_TEXT>>, TRUE)
       ELSE IF response.contains_valid_query
       THEN Result(IF DOMAIN raw # {}
                   THEN update_deal_fields(t2, deal_id, raw, strict).tbl ELSE t2,
                   <<message_to_send.kind>>, TRUE)
       ELSE IF basic.event_details
       THEN Result(SaveWithNameOrPhoneResets(t2, deal_id, BasicFields(basic), strict),
                   <<DETAILS_TEXT>>, TRUE)
       ELSE Result(t2, <<GREETING_SEQ>>, TRUE)

\* Registered sender without a deal: the branch after create_deal and the
\* collaborator call.  The refusal check reads the flags of `deal` as read
\* right after create_deal (none set), so it never blocks; the asked-flag
\* updates after the send pass the deal object as the id and change nothing.
RegisteredNewDealReply(tbl, deal_id, response, strict) ==
    LET message_to_send == MessageOrFallback(response)
        contains_structured_data == StructuredData(response)
        raw == RawFields(response)
        t1 == AskPhoneBeforeSend(tbl, deal_id, response, strict)
    IN IF message_to_send = GREETING_WITH_DATA
       THEN Result(IF contains_structured_data /\ DOMAIN raw # {}
                   THEN update_deal_fields(t1, deal_id, raw, strict).tbl ELSE t1,
                   <<GREETING_SEQ>>, TRUE)
       ELSE IF response.is_greeting_message THEN Result(t1, <<GREETING_SEQ>>, TRUE)
       ELSE IF message_to_send = NO_MESSAGE THEN Result(t1, << >>, TRUE)
       ELSE IF response.contains_valid_query \/ contains_structured_data
       THEN Result(IF contains_structured_data
                   THEN SaveWithNameOrPhoneResets(t1, deal_id, ExtractedFields(response), strict)
                   ELSE t1,
                   <<message_to_send.kind>>, TRUE)
       ELSE Result(t1, << >>, TRUE)

\* Unregistered sender whose deal exists and misses a required field.
UnregisteredExistingDealReply(tbl, deal_id, missing_fields, response, strict) ==
    IF ~response.has_message THEN Result(tbl, << >>, FALSE)
    ELSE LET message_to_send == response.message_to_be_sent
             fields_to_update == ExtractedFields(response)
             t1 == IF StructuredData(response) /\ DOMAIN fields_to_update # {}
                   THEN update_deal_fields(tbl, deal_id, fields_to_update, strict).tbl
                   ELSE tbl
         IN IF message_to_send = NO_MESSAGE THEN Result(t1, << >>, TRUE)
            ELSE Result(SetAskedFlags(t1, deal_id,
                            KeywordFields(message_to_send, missing_fields,
                                          MentionsPhone(message_to_send)), strict),
                        <<message_to_send.kind>>, TRUE)

(***************************************************************************)
(* repository/processed_message_repository.py: the processed_messages     *)
(* table, one row per message_id (unique).  A row is "new" until           *)
(* the cleanup cutoff has passed it, then "old".                           *)
(***************************************************************************)
HasRow(ledger, message_id) == message_id \in DOMAIN ledger /\ ledger[message_id] # "none"
\* a ledger read that never finds the row
LedgerReadFindsNothing(ledger, message_id) == FALSE
is_message_processed(ledger, message_id) == HasRow(ledger, message_id)
\* mark_message_as_processed, the SELECT: was a row found
MarkFindsRow(ledger, message_id) == HasRow(ledger, message_id)
\* mark_message_as_processed, the commit: [ok, ledger].  With a row found
\* the row is updated (the update of a row deleted meanwhile fails); without
\* one a row is inserted, which the unique index refuses if one appeared.
MarkCommits(ledger, message_id, row_found) ==
    IF row_found
    THEN [ok |-> HasRow(ledger, message_id), ledger |-> ledger]
    ELSE IF HasRow(ledger, message_id)
    THEN [ok |-> FALSE, ledger |-> ledger]
    ELSE [ok |-> TRUE,
          ledger |-> IF message_id \in DOMAIN ledger
                     THEN [ledger EXCEPT ![message_id] = "new"] ELSE ledger]
mark_message_as_processed(ledger, message_id) ==
    MarkCommits(ledger, message_id, MarkFindsRow(ledger, message_id))
\* cleanup_old_processed_messages(days_old): rows older than the cutoff go
DeleteEveryRow(ledger) == [m \in DOMAIN ledger |-> "none"]
cleanup_old_processed_messages(ledger) ==
    [m \in DOMAIN ledger |-> IF ledger[m] = "old" THEN "none" ELSE ledger[m]]
\* send_instagram_message marks the message again after each HTTP 200
LedgerAfterSends(ledger, message_id, out) ==
    IF message_id # "" /\ out # << >>
    THEN mark_message_as_processed(ledger, message_id).ledger
    ELSE ledger

\* repository/instagram_user_repository.py
is_user_present(users, username, contacted_to) == <<username, contacted_to>> \in users
create_instagram_user(users, username, contacted_to) == users \cup {<<username, contacted_to>>}
\* repository/course_related_user_repository.py (looked up by username only)
\* a lookup that finds no row
NeverFlagged(users, username) == FALSE
is_course_related_user(users, username) == username \in users

(***************************************************************************)
(* Inputs.  The collaborator's answers are drawn per branch; a component   *)
(* the branch does not read stays at one value.                            *)
(***************************************************************************)
Fields(n, t, dt, v, ph) ==
    [full_name |-> n, event_type |-> t, event_date |-> dt, venue |-> v,
     phone_number |-> ph]
\* the extracted values an answer may carry
FieldCombos ==
    {Fields("", "", "", "", ""), Fields("N1", "", "", "", ""),
     Fields("", "", "D1", "", ""), Fields("", "", "FY", "", ""),
     Fields("", "", "NY", "", ""), Fields("", "", "MD", "", ""),
     Fields("", "", "", "V1", ""),
     Fields("", "", "", "", "P1"), Fields("N1", "", "", "", "P1"),
     Fields("N1", "", "", "V1", ""), Fields("", "T1", "D1", "V1", ""),
     Fields("", "", "FY", "V1", "P1"), Fields("", "T2", "", "", "")}
NoFields == Fields("", "", "", "", "")
MakeResponse(has, m, csd, cvq, greet, f) ==
    Response(has, m, csd, cvq, greet, f.full_name, f.event_type, f.event_date,
             f.venue, f.phone_number)
\* a dict without message_to_be_sent and without fields
InvalidResponse == MakeResponse(FALSE, Fixed("EMPTY"), FALSE, FALSE, FALSE, NoFields)
AllResponses ==
    {MakeResponse(has, m, csd, cvq, greet, f) :
        has \in BOOLEAN, m \in Messages, csd \in BOOLEAN, cvq \in BOOLEAN,
        greet \in BOOLEAN, f \in FieldCombos}

\* Registered sender, existing deal: contains_valid_query is never read; the
\* other two signals are read only when nothing validated was extracted but
\* a raw value was.
ExistingDealResponses ==
    {InvalidResponse} \cup
    {r \in AllResponses :
        /\ r.has_message /\ ~r.contains_valid_query
        /\ (DOMAIN ExtractedFields(r) # {} \/ DOMAIN RawFields(r) = {}
              => ~r.contains_structured_data /\ ~r.is_greeting_message)}
\* The regenerated answer: only its message_to_be_sent is read.
RegeneratedResponses ==
    {InvalidResponse} \cup
    {MakeResponse(TRUE, m, FALSE, FALSE, FALSE, NoFields) : m \in Messages}
\* The first answer's text is read after a regeneration only when the
\* regenerated answer is unusable or is the greeting sentinel; for the other
\* regenerated answers one first text stands for all.
RegeneratedFor(response) ==
    IF response.message_to_be_sent = Text("none", FALSE, FALSE)
    THEN RegeneratedResponses
    ELSE {InvalidResponse,
          MakeResponse(TRUE, GREETING_WITH_DATA, FALSE, FALSE, FALSE, NoFields)}
\* Unregistered sender, existing deal: the structured-data signal matters
\* only without a required field; the two other signals are not read.
UnregisteredResponses ==
    {InvalidResponse} \cup
    {r \in AllResponses :
        /\ r.has_message /\ ~r.contains_valid_query /\ ~r.is_greeting_message
        /\ (ProvidedFields(r) # {} => ~r.contains_structured_data)}
\* New deal: without message_to_be_sent the text is the fallback one;
\* contains_valid_query is read only without structured data.
NewDealResponses ==
    {r \in AllResponses :
        /\ (~r.has_message => r.message_to_be_sent = Fixed("EMPTY"))
        /\ (ProvidedFields(r) # {} => ~r.contains_structured_data)
        /\ (StructuredData(r) => ~r.contains_valid_query)}
BasicInfos ==
    {BasicInfo(TRUE, "", "", "", "", ""), BasicInfo(TRUE, "", "T1", "", "", ""),
     BasicInfo(TRUE, "", "", "FY", "", ""), BasicInfo(TRUE, "", "", "NY", "V1", ""),
     BasicInfo(TRUE, "", "", "", "", "P1"), BasicInfo(TRUE, "", "", "D1", "V1", "P1")}
\* the keyword heuristics run only here
HeuristicsReached(response) ==
    /\ ~StructuredData(response) /\ ~response.contains_valid_query
    /\ ~response.is_greeting_message
    /\ MessageOrFallback(response) \notin {GREETING_WITH_DATA, NO_MESSAGE}

\* The answers used when requests interleave.
ConcResponses ==
    {InvalidResponse,
     MakeResponse(TRUE, Text("contact number", TRUE, TRUE), FALSE, TRUE, FALSE, NoFields),
     MakeResponse(TRUE, Text("none", FALSE, FALSE), TRUE, FALSE, FALSE,
                  [NoFields EXCEPT !.phone_number = "P1"]),
     MakeResponse(TRUE, Text("word", FALSE, FALSE), TRUE, FALSE, FALSE,
                  [NoFields EXCEPT !.event_date = "D1", !.venue = "V1"]),
     MakeResponse(TRUE, ThankYou, TRUE, FALSE, FALSE,
                  [NoFields EXCEPT !.event_date = "D1", !.venue = "V1", !.phone_number = "P1"]),
     MakeResponse(TRUE, NO_MESSAGE, FALSE, FALSE, FALSE, NoFields),
     MakeResponse(TRUE, GREETING_WITH_DATA, FALSE, FALSE, TRUE, NoFields)}

\* What the message carries at ingress (_validate_webhook_data and
\* _should_skip_message), in the order the checks are made.
EventTraits == {"invalid", "self", "vendor", "no_text", "story", "no_vendor",
                "course", "collab", "unrelated"}
\* an event is the set of its traits; the empty set is a lead's text message
IngressKinds == {{k} : k \in EventTraits} \cup {{}}
\* events with up to two traits
IngressEvents == {e \in SUBSET EventTraits : Cardinality(e) <= 2}
EarlySkips == {"invalid", "self", "vendor", "no_text", "story", "no_vendor"}
\* the classifiers that ask the language model, and so can fail
Classifiers == {"course", "unrelated"}
NoFaults == {{}}
\* The events delivered when requests interleave.
ConcIngress == {{}, {"collab"}}
TenantIngress == {{}, {"course"}}
ConcMids == MessageIds \cup {OtherId}

(***************************************************************************)
(* AIServiceFactory: the clients it builds and keeps.                      *)
(***************************************************************************)
MaxFactoryRequests == 3
VendorIds == {1, 2}
\* brideside_vendors.business_name and .services as a request reads them
VendorRows == [business_name : {"B1", "B2"}, services : {{"S1"}, {"S1", "S2"}}]
\* what a client is built with; service_name, api_key and model come from
\* the process configuration and are the same in every call
ClientConfig(brideside_user_id, business_name, services) ==
    [brideside_user_id |-> brideside_user_id, business_name |-> business_name,
     services |-> services]
NoInstance == ClientConfig(0, "", {})
\* _should_skip_message: the client for the utility functions
basic_service_config == ClientConfig(1, "", {})
\* _handle_user_message_flow: the client of the tenant
default_service_config(brideside_user_id, row) ==
    ClientConfig(brideside_user_id, row.business_name, row.services)
\* cache_key = f"{service_name}_{brideside_user_id}_{model}"
cache_key(config) == config.brideside_user_id
\* create_service through get_service_by_config, with a configured api_key
create_service(instances, config) ==
    IF instances[cache_key(config)] # NoInstance
    THEN [instances |-> instances, instance |-> instances[cache_key(config)]]
    ELSE [instances |-> [instances EXCEPT ![cache_key(config)] = config],
          instance |-> config]
NoFactoryRequest ==
    [pc |-> "idle", brideside_user_id |-> 0, row |-> [business_name |-> "", services |-> {}],
     basic |-> NoInstance, client |-> NoInstance]

(***************************************************************************)
(* The boolean flags of a Lead as the driver hands them over.              *)
(***************************************************************************)
Flags == {"event_date_asked", "venue_asked", "contact_number_asked", "final_thank_you_sent"}
AskedFlags == Flags \ {"final_thank_you_sent"}
\* a value of a flag column: kind is the Python type, val its content
\* (bytes as a sequence of byte values)
Encodings ==
    [kind : {"int"}, val : {0, 1}] \cup [kind : {"bool"}, val : BOOLEAN]
      \cup [kind : {"bytes"}, val : {<<0>>, <<1>>}]
\* the logical value an encoding stands for
Logical(value) ==
    CASE value.kind = "bool" -> value.val = TRUE
      [] value.kind = "int" -> value.val = 1
      [] value.kind = "bytes" -> value.val = <<1>>
RECURSIVE from_bytes(_)
\* int.from_bytes(value, byteorder='big')
from_bytes(bytes) ==
    IF bytes = << >> THEN 0
    ELSE from_bytes(SubSeq(bytes, 1, Len(bytes) - 1)) * 256 + bytes[Len(bytes)]
\* Python truth value: `if not value`
TruthValue(value) ==
    CASE value.kind = "bool" -> value.val
      [] value.kind = "int" -> value.val # 0
      [] value.kind = "bytes" -> Len(value.val) > 0
_safe_bool(value) ==
    CASE value.kind = "bool" -> value.val
      [] value.kind = "int" -> value.val # 0
      [] value.kind = "bytes" -> from_bytes(value.val) # 0
DefaultFlags == [f \in Flags |-> [kind |-> "bool", val |-> FALSE]]
NoReads == [pc |-> "idle", sends_final |-> FALSE, asked |-> {}]

(***************************************************************************)
(* The body of a webhook POST.                                             *)
(***************************************************************************)
MaxEntries == 2
MaxEvents == 2
\* a messaging event: message says whether it has a non-empty "message"
WebhookEvents ==
    {[id |-> "e1", message |-> TRUE], [id |-> "e2", message |-> TRUE],
     [id |-> "e3", message |-> FALSE]}
SeqsUpTo(S, n) == UNION {[1..k -> S] : k \in 0..n}
\* entry["messaging"]; absent and empty are one case to the handler
Messagings == SeqsUpTo(WebhookEvents, MaxEvents)
\* data["entry"]
Payloads == SeqsUpTo(Messagings, MaxEntries)
_validate_webhook_data(body) ==
    IF body = << >> THEN [is_valid |-> FALSE, error_msg |-> "No entry"]
    ELSE IF body[1] = << >> THEN [is_valid |-> FALSE, error_msg |-> "No messaging"]
    ELSE IF ~body[1][1].message THEN [is_valid |-> FALSE, error_msg |-> "No message"]
    ELSE [is_valid |-> TRUE, error_msg |-> ""]
RECURSIVE Flatten(_)
Flatten(body) == IF body = << >> THEN << >> ELSE Head(body) \o Flatten(Tail(body))
\* every event of every entry that has a message
_extract_messaging_events(body) == SelectSeq(Flatten(body), LAMBDA event : event.message)
\* entry = data["entry"][0]; messaging_event = entry["messaging"][0]
messaging_event(body) == <<body[1][1]>>
NoDispatch == [pc |-> "idle", events |-> << >>, status |-> 0, error_msg |-> ""]

(***************************************************************************)
(* State.                                                                  *)
(***************************************************************************)
VARIABLES
    deals,                 \* the deals table, row i has id i
    processed_messages,    \* message id -> "none" | "new" | "old"
    instagram_users,       \* rows of instagram_users: <<username, tenant>>
    course_related_users,  \* usernames in course_related_users
    strict,                \* whether the database runs in strict SQL mode
    hs,                    \* the request in each handler slot
    budget,                \* requests still to be accepted
    processings,           \* per message id: requests that sent or wrote
    acks,                  \* per deal: acknowledgment texts sent
    snd,                   \* the call of send_instagram_message in progress
    vendor_token,          \* brideside_vendors.access_token: version of the stored credential
    send_budget,           \* calls of send_instagram_message still to be made
    summaries,             \* instagram_conversation_summaries: the texts of one deal's rows
    lead,                  \* whether that deal exists
    ws,                    \* per slot: the request's position among its summary writes
    summary_budget,        \* requests still to be accepted by SpecSummary
    _instances,            \* AIServiceFactory._instances: cache key -> client
    fq,                    \* the request as far as the factory is concerned
    factory_budget,        \* requests still to be accepted by SpecFactory
    flag_values,           \* the flag columns of one Lead as the driver returns them
    flag_reads,            \* the decisions taken from them
    failed,                \* message ids of requests answered with HTTP 500
    data,                  \* the JSON body of a POST: entries, each a list of messaging events
    dispatch,              \* what _handle_post_request made of it
    course_related_vendor  \* course_related_users.brideside_vendor_id, per username

vars == <<deals, processed_messages, instagram_users, course_related_users,
          strict, hs, budget, processings, acks, snd, vendor_token, send_budget,
          summaries, lead, ws, summary_budget,
          _instances, fq, factory_budget, flag_values, flag_reads, failed, data, dispatch,
          course_related_vendor>>
factoryvars == <<_instances, fq, factory_budget>>
flagvars == <<flag_values, flag_reads>>
payloadvars == <<data, dispatch>>
summaryvars == <<summaries, lead, ws, summary_budget>>
sendvars == <<snd, vendor_token, send_budget>>
flowvars == <<deals, instagram_users, course_related_users, strict, hs, budget, failed,
              course_related_vendor,
              processings, acks>>

NoRequest ==
    [pc |-> "idle", mid |-> "", sender |-> "", tenant |-> "", ingress |-> {},
     raises |-> {}, skip_reason |-> "", invoked |-> {}, classified |-> FALSE,
     ledger_hit |-> FALSE, row_found |-> FALSE, path |-> "", deal_id |-> NoDeal,
     missing_fields |-> {}, final_seen |-> FALSE, supplied |-> {},
     response |-> InvalidResponse, basic |-> NoEventDetails, ai_called |-> FALSE, delivered |-> {}, cleaned |-> FALSE,
     wrote |-> FALSE, out |-> << >>, status |-> 0, reason |-> ""]

\* one call of send_instagram_message; a token is its version, 0 is "" / None
NoSend ==
    [pc |-> "idle", message_id |-> "", access_token |-> 0, user_id |-> FALSE,
     first_status |-> 0, posts |-> 0, refreshes |-> 0, new_token |-> 0,
     result |-> None]

\* one request as far as the conversation summary is concerned
NoWrites ==
    [pc |-> "idle", text |-> << >>, saves |-> FALSE, guarded |-> FALSE,
     found |-> FALSE, read |-> << >>,
     failed |-> FALSE, replied |-> FALSE, status |-> 0]

InitTables ==
    /\ course_related_vendor = [u \in Senders |-> ""]
    /\ dispatch = NoDispatch
    /\ failed = {}
    /\ _instances = [k \in VendorIds |-> NoInstance]
    /\ fq = NoFactoryRequest
    /\ flag_reads = NoReads
    /\ snd = NoSend
    /\ summaries = << >>
    /\ lead = FALSE
    /\ ws = [h \in Handlers |-> NoWrites]
    /\ vendor_token = 1
    /\ deals = << >>
    /\ processed_messages = [m \in MessageIds |-> "none"]
    /\ instagram_users = {}
    /\ course_related_users = {}
    /\ strict \in BOOLEAN
    /\ hs = [h \in Handlers |-> NoRequest]
    /\ processings = [m \in MessageIds |-> 0]
    /\ acks = << >>

\* no request for the factory, and flags that need no decoding
InitRest == factory_budget = 0 /\ flag_values = DefaultFlags /\ data = << >>
Init ==
    InitTables /\ InitRest /\ budget = MaxDeliveries /\ send_budget = 0 /\ summary_budget = 0
InitConc ==
    InitTables /\ InitRest /\ budget = MaxConcDeliveries /\ send_budget = 0
      /\ summary_budget = 0
InitSend ==
    InitTables /\ InitRest /\ budget = 0 /\ send_budget = MaxSendCalls /\ summary_budget = 0
InitSummary ==
    InitTables /\ InitRest /\ budget = 0 /\ send_budget = 0
      /\ summary_budget = MaxSummaryRequests
InitFactory ==
    InitTables /\ budget = 0 /\ send_budget = 0 /\ summary_budget = 0
      /\ factory_budget = MaxFactoryRequests /\ flag_values = DefaultFlags
      /\ data = << >>
InitFlags ==
    InitTables /\ budget = 0 /\ send_budget = 0 /\ summary_budget = 0
      /\ factory_budget = 0 /\ flag_values \in [Flags -> Encodings] /\ data = << >>
InitPayload ==
    InitTables /\ budget = 0 /\ send_budget = 0 /\ summary_budget = 0
      /\ factory_budget = 0 /\ flag_values = DefaultFlags /\ data \in Payloads

\* the ids answered with 500 once the step of slot h is taken
FailedAfter(h) ==
    IF hs'[h].pc = "done" /\ hs'[h].status = 500 /\ hs'[h].mid \in MessageIds
    THEN failed \cup {hs'[h].mid} ELSE failed
Finish(r, status, reason) == [r EXCEPT !.pc = "done", !.status = status, !.reason = reason]
InFlow(r) == r.pc \in {"lookup", "create", "act"}

(***************************************************************************)
(* _handle_post_request up to the ledger read.                             *)
(***************************************************************************)
\* the answer of a classifier: the methods of openai_service catch what the
\* call to the model raises and return False
\* a failed call counts as a yes
FailClosed(ingress, raises, c) == c \in ingress \/ c \in raises
ClassifierAnswer(ingress, raises, c) == c \in ingress /\ c \notin raises
\* every classifier is asked, whichever check drops the event
SkipAskingAll(reason, invoked, marks) ==
    [reason |-> reason, invoked |-> {"course", "collab", "unrelated"}, marks |-> marks]
Skip(reason, invoked, marks) == [reason |-> reason, invoked |-> invoked, marks |-> marks]
\* _validate_webhook_data, then _should_skip_message: which check drops the
\* event ("" if none), the classifiers invoked, whether the sender is marked
_should_skip_message(ingress, raises, flagged, present) ==
    IF "invalid" \in ingress THEN Skip("invalid", {}, FALSE)
    ELSE IF "self" \in ingress THEN Skip("self", {}, FALSE)
    ELSE IF "vendor" \in ingress THEN Skip("vendor", {}, FALSE)
    ELSE IF "no_text" \in ingress THEN Skip("no_text", {}, FALSE)
    ELSE IF "story" \in ingress THEN Skip("story", {}, FALSE)
    ELSE IF "no_vendor" \in ingress THEN Skip("no_vendor", {}, FALSE)
    ELSE IF flagged THEN Skip("flagged", {}, FALSE)
    ELSE IF ClassifierAnswer(ingress, raises, "course") THEN Skip("course", {"course"}, TRUE)
    ELSE IF "collab" \in ingress THEN Skip("collab", {"course", "collab"}, TRUE)
    ELSE IF ~present /\ ClassifierAnswer(ingress, raises, "unrelated")
    THEN Skip("unrelated", {"course", "collab", "unrelated"}, FALSE)
    ELSE Skip("", {"course", "collab"} \cup (IF present THEN {} ELSE {"unrelated"}), FALSE)

\* faults: the sets of classifiers whose call to the model may fail
Receive(h, mids, kinds, faults, tenants) ==
    /\ hs[h].pc = "idle"
    /\ \E sender \in Senders, tenant \in tenants, ingress \in kinds, mid \in mids :
       \E raises \in IF ingress \cap EarlySkips = {} THEN faults ELSE {{}} :
         LET present == is_user_present(instagram_users, sender, tenant)
             flagged == is_course_related_user(course_related_users, sender)
             skip == _should_skip_message(ingress, raises, flagged, present)
             r == [NoRequest EXCEPT !.sender = sender, !.tenant = tenant, !.mid = mid,
                                    !.ingress = ingress, !.raises = raises,
                                    !.skip_reason = skip.reason, !.invoked = skip.invoked,
                                    !.classified = skip.invoked # {}]
         IN /\ course_related_users' =
                  IF skip.marks THEN course_related_users \cup {sender}
                  ELSE course_related_users
            /\ course_related_vendor' =
                  IF skip.marks /\ sender \notin course_related_users
                  THEN [course_related_vendor EXCEPT ![sender] = tenant]
                  ELSE course_related_vendor
            /\ IF skip.reason # ""
               THEN /\ hs' = [hs EXCEPT ![h] = Finish(r, 200, "skipped")]
                    /\ UNCHANGED budget
               ELSE IF mid # "" /\ is_message_processed(processed_messages, mid)
               THEN /\ hs' = [hs EXCEPT ![h] =
                          Finish([r EXCEPT !.ledger_hit = TRUE], 200, "already processed")]
                    /\ UNCHANGED budget
               ELSE /\ budget > 0
                    /\ budget' = budget - 1
                    /\ hs' = [hs EXCEPT ![h] =
                          [r EXCEPT !.pc = IF mid = "" THEN "lookup" ELSE "mark"]]
    /\ UNCHANGED <<sendvars, summaryvars, factoryvars, flagvars, payloadvars>>
    /\ UNCHANGED failed
    /\ UNCHANGED <<deals, processed_messages, instagram_users, strict, processings, acks>>

\* mark_message_as_processed: the SELECT
MarkQuery(h) ==
    /\ hs[h].pc = "mark"
    /\ hs' = [hs EXCEPT ![h].pc = "commit",
                        ![h].row_found = MarkFindsRow(processed_messages, hs[h].mid)]
    /\ UNCHANGED <<sendvars, summaryvars, factoryvars, flagvars, payloadvars>>
    /\ UNCHANGED <<failed, course_related_vendor>>
    /\ UNCHANGED <<deals, processed_messages, instagram_users, course_related_users,
                   strict, budget, processings, acks>>

\* mark_message_as_processed: the commit, and the caller's `if not success`
MarkCommit(h) ==
    /\ hs[h].pc = "commit"
    /\ LET m == MarkCommits(processed_messages, hs[h].mid, hs[h].row_found)
       IN /\ processed_messages' = m.ledger
          /\ hs' = [hs EXCEPT ![h] =
                IF m.ok THEN [@ EXCEPT !.pc = "lookup"]
                ELSE Finish(@, 200, "already processed by another")]
    /\ UNCHANGED <<sendvars, summaryvars, factoryvars, flagvars, payloadvars>>
    /\ UNCHANGED <<failed, course_related_vendor>>
    /\ UNCHANGED <<deals, instagram_users, course_related_users, strict, budget,
                   processings, acks>>

(***************************************************************************)
(* _handle_user_message_flow: the reads made before the collaborator is    *)
(* called.                                                                 *)
(***************************************************************************)
\* The deal found and what is read from it
SkipCompletenessCheck(r, deal, complete_path, incomplete_path) ==
    [r EXCEPT !.pc = "act", !.deal_id = deal.id,
              !.missing_fields = _get_missing_fields_from_deal(deal),
              !.final_seen = deal.final_thank_you_sent,
              !.path = incomplete_path]
WithDeal(r, deal, complete_path, incomplete_path) ==
    LET missing_fields == _get_missing_fields_from_deal(deal)
    IN [r EXCEPT !.pc = "act", !.deal_id = deal.id,
                 !.missing_fields = missing_fields,
                 !.final_seen = deal.final_thank_you_sent,
                 !.path = IF missing_fields = {} THEN complete_path ELSE incomplete_path]

\* checkIfUserIsAlreadyContactedOrFriend, is_user_present,
\* get_deal_by_user_name; for an unregistered sender create_instagram_user
FlowLookup(h) ==
    /\ hs[h].pc = "lookup"
    /\ \E already_contacted \in BOOLEAN :
         LET r == hs[h]
             present == is_user_present(instagram_users, r.sender, r.tenant)
             deal_id == get_deal_by_user_name(deals, r.sender, r.tenant)
         IN IF already_contacted
            THEN /\ hs' = [hs EXCEPT ![h] = Finish(r, 500, "already contacted")]
                 /\ UNCHANGED instagram_users
            ELSE IF present
            THEN /\ hs' = [hs EXCEPT ![h] =
                       IF deal_id # NoDeal
                       THEN WithDeal(r, deals[deal_id], "complete", "existing")
                       ELSE [r EXCEPT !.pc = "create", !.path = "registered_new"]]
                 /\ UNCHANGED instagram_users
            ELSE /\ instagram_users' = create_instagram_user(instagram_users, r.sender, r.tenant)
                 /\ hs' = [hs EXCEPT ![h] = [r EXCEPT !.pc = "create", !.path = "unregistered"]]
    /\ UNCHANGED <<sendvars, summaryvars, factoryvars, flagvars, payloadvars>>
    /\ failed' = FailedAfter(h)
    /\ UNCHANGED course_related_vendor
    /\ UNCHANGED <<deals, processed_messages, course_related_users, strict, budget,
                   processings, acks>>

\* For an unregistered sender get_person_by_username / create_person_entry
\* (person_created: whether a person row exists afterwards), then
\* deal_exists / create_deal
FlowCreate(h) ==
    /\ hs[h].pc = "create"
    /\ \E person_created \in IF hs[h].path = "unregistered" THEN BOOLEAN ELSE {TRUE} :
       LET r == hs[h]
           created == create_deal(deals, r.sender, r.tenant)
           new_path == IF r.path = "registered_new" THEN "registered_new" ELSE "new"
       IN IF ~person_created
          THEN /\ hs' = [hs EXCEPT ![h] = Finish(r, 500, "Failed to create person")]
               /\ UNCHANGED <<deals, acks>>
          ELSE IF r.path = "unregistered" /\ deal_exists(deals, r.sender, r.tenant)
          THEN /\ hs' = [hs EXCEPT ![h] =
                     WithDeal(r, deals[get_deal_by_user_name(deals, r.sender, r.tenant)],
                              "complete", "unregistered_existing")]
               /\ UNCHANGED <<deals, acks>>
          ELSE IF created.id = NoDeal
          THEN /\ hs' = [hs EXCEPT ![h] =
                     IF r.path = "registered_new" THEN Finish(r, 200, "Processed")
                     ELSE Finish(r, 500, "Failed to create deal")]
               /\ UNCHANGED <<deals, acks>>
          ELSE /\ deals' = created.tbl
               /\ acks' = Append(acks, 0)
               /\ hs' = [hs EXCEPT ![h] =
                     [r EXCEPT !.pc = "act", !.path = new_path, !.deal_id = created.id,
                               !.missing_fields = RequiredFields, !.wrote = TRUE]]
    /\ UNCHANGED <<sendvars, summaryvars, factoryvars, flagvars, payloadvars>>
    /\ failed' = FailedAfter(h)
    /\ UNCHANGED course_related_vendor
    /\ UNCHANGED <<processed_messages, instagram_users, course_related_users, strict,
                   budget, processings>>

(***************************************************************************)
(* The rest of the request: the branch taken after the collaborator's      *)
(* answer, the sends, and the end of _handle_post_request.                 *)
(***************************************************************************)
CountAcks(out) == Cardinality({i \in 1..Len(out) : out[i] \in AckKinds})

\* res: what the branch did; response, basic: the collaborator's first answer
\* and what the keyword heuristics found (the placeholders InvalidResponse
\* and NoEventDetails when they were not consulted); supplied: the required
\* fields the message gave
\* which of the texts of `out` the platform accepted: send_instagram_message
\* returns False for the others, and no caller in the flow reads the result
SendResults(out, wide) == IF wide THEN SUBSET (1..Len(out)) ELSE {1..Len(out)}
Conclude(h, res, response, basic, supplied, ai_called, wide) ==
    \E delivered \in SendResults(res.out, wide) :
    \E cleanup \in IF res.ok THEN BOOLEAN ELSE {FALSE} :
       LET r == hs[h]
           marked == LedgerAfterSends(processed_messages, r.mid,
                                     IF delivered = {} THEN << >> ELSE res.out)
           wrote == r.wrote \/ res.tbl # deals
       IN /\ deals' = res.tbl
          /\ processed_messages' =
                IF cleanup THEN cleanup_old_processed_messages(marked) ELSE marked
          /\ hs' = [hs EXCEPT ![h] =
                [Finish(r, IF res.ok THEN 200 ELSE 500, "flow")
                   EXCEPT !.out = res.out, !.supplied = supplied, !.wrote = wrote,
                          !.response = response, !.basic = basic,
                          !.ai_called = ai_called, !.delivered = delivered,
                          !.cleaned = cleanup,
                          !.missing_fields = {}, !.row_found = FALSE]]
          /\ processings' =
                IF r.mid \in MessageIds /\ (wrote \/ res.out # << >>)
                THEN [processings EXCEPT ![r.mid] = Bump(@)] ELSE processings
          /\ acks' = [acks EXCEPT ![r.deal_id] = Min(@ + CountAcks(res.out), MaxCount)]
          /\ UNCHANGED <<sendvars, summaryvars, factoryvars, flagvars, payloadvars>>
          /\ failed' = FailedAfter(h)
          /\ UNCHANGED course_related_vendor
          /\ UNCHANGED <<instagram_users, course_related_users, strict, budget>>

\* wide: the full answer sets; otherwise the answers of ConcResponses
FlowAct(h, wide) ==
    /\ hs[h].pc = "act"
    /\ LET r == hs[h]
           id == r.deal_id
       IN CASE r.path = "complete" ->
                 Conclude(h, CompleteDealReply(deals, id, r.final_seen, strict),
                          InvalidResponse, NoEventDetails, {}, FALSE, wide)
            [] r.path = "existing" ->
                 \E response \in IF wide THEN ExistingDealResponses ELSE ConcResponses :
                   \E updated_response \in
                         IF wide /\ RegenerateRequested(deals, id, r.missing_fields, response, strict)
                         THEN RegeneratedFor(response) ELSE {InvalidResponse} :
                     Conclude(h, ExistingDealReply(deals, id, r.missing_fields, response,
                                                   updated_response, strict),
                              response, NoEventDetails, ProvidedFields(response), TRUE, wide)
            [] r.path = "unregistered_existing" ->
                 \E response \in IF wide THEN UnregisteredResponses ELSE ConcResponses :
                   Conclude(h, UnregisteredExistingDealReply(deals, id, r.missing_fields,
                                                             response, strict),
                            response, NoEventDetails, ProvidedFields(response), TRUE, wide)
            [] r.path = "registered_new" ->
                 \E response \in IF wide THEN NewDealResponses ELSE ConcResponses :
                   Conclude(h, RegisteredNewDealReply(deals, id, response, strict),
                            response, NoEventDetails, ProvidedFields(response), TRUE, wide)
            [] r.path = "new" ->
                 \E response \in IF wide THEN NewDealResponses ELSE ConcResponses :
                   \E basic \in IF wide /\ HeuristicsReached(response)
                                 THEN BasicInfos \cup {NoEventDetails} ELSE {NoEventDetails} :
                     Conclude(h, NewDealReply(deals, id, response, basic, strict),
                              response, basic,
                              ProvidedFields(response) \cup
                                (RequiredFields \cap DOMAIN BasicFields(basic)), TRUE, wide)

\* `return result_msg, status`: the response goes out and the slot is free
Return(h) ==
    /\ hs[h].pc = "done"
    /\ hs' = [hs EXCEPT ![h] = NoRequest]
    /\ UNCHANGED <<sendvars, summaryvars, factoryvars, flagvars, payloadvars>>
    /\ UNCHANGED <<failed, course_related_vendor>>
    /\ UNCHANGED <<deals, processed_messages, instagram_users, course_related_users,
                   strict, budget, processings, acks>>

\* Time passes between requests: every row of the ledger is now older than
\* the cleanup cutoff
Age ==
    /\ \A h \in Handlers : hs[h].pc = "idle"
    /\ \E m \in MessageIds : processed_messages[m] = "new"
    /\ processed_messages' =
          [m \in MessageIds |-> IF processed_messages[m] = "new" THEN "old"
                                ELSE processed_messages[m]]
    /\ UNCHANGED <<sendvars, summaryvars, factoryvars, flagvars, payloadvars>>
    /\ UNCHANGED <<failed, course_related_vendor>>
    /\ UNCHANGED <<deals, instagram_users, course_related_users, strict, hs, budget,
                   processings, acks>>

(***************************************************************************)
(* services/instagram_service.py, services/token_refresh_service.py: one   *)
(* call of send_instagram_message, step by step.                           *)
(***************************************************************************)
\* what requests.post gives: an HTTP status, or 0 when it raises
PostOutcomes == {0, 200, 401, 403, 500}
AuthFailures == {401, 403}
\* response.text as handle_token_refresh_if_needed reads it
ErrorBodies == {"expired", "other", "not_json"}
\* refresh_access_token: the GET and the save of the new token
RefreshOutcomes == {"saved", "not_saved", "refused", "raises"}
Returned(s, result) == [s EXCEPT !.pc = "done", !.result = result]

\* a call by the webhook: with or without message id, with the credential
\* the request read from the vendor row (now or before a refresh) or none,
\* with or without user_id
SendCall ==
    /\ snd.pc = "idle"
    /\ send_budget > 0
    /\ send_budget' = send_budget - 1
    /\ \E message_id \in MessageIds \cup {""}, access_token \in 0..vendor_token,
          user_id \in BOOLEAN :
         snd' = [NoSend EXCEPT !.pc = "post", !.message_id = message_id,
                               !.access_token = access_token, !.user_id = user_id]
    /\ UNCHANGED <<summaryvars, factoryvars, flagvars, payloadvars>>
    /\ UNCHANGED <<flowvars, processed_messages, vendor_token>>

\* requests.post and the branches on its status
SendPost ==
    /\ snd.pc = "post"
    /\ \E outcome \in PostOutcomes :
         LET s == [snd EXCEPT !.posts = Min(@ + 1, MaxAttempts),
                              !.first_status = IF snd.posts = 0 THEN outcome ELSE @]
         IN CASE outcome = 200 ->
                   /\ processed_messages' =
                         IF s.message_id # ""
                         THEN mark_message_as_processed(processed_messages, s.message_id).ledger
                         ELSE processed_messages
                   /\ snd' = Returned(s, "True")
              [] outcome = 0 ->
                   /\ snd' = Returned(s, "False")
                   /\ UNCHANGED processed_messages
              [] outcome \in AuthFailures /\ s.user_id /\ s.access_token # 0 ->
                   /\ snd' = [s EXCEPT !.pc = "check"]
                   /\ UNCHANGED processed_messages
              [] OTHER ->
                   /\ snd' = Returned(s, "False")
                   /\ UNCHANGED processed_messages
    /\ UNCHANGED <<summaryvars, factoryvars, flagvars, payloadvars>>
    /\ UNCHANGED <<flowvars, vendor_token, send_budget>>

\* handle_token_refresh_if_needed: only a body that is_token_expired_error
\* recognises leads to a refresh
SendCheck ==
    /\ snd.pc = "check"
    /\ \E body \in ErrorBodies :
         snd' = IF body = "expired" THEN [snd EXCEPT !.pc = "refresh"]
                ELSE Returned(snd, "False")
    /\ UNCHANGED <<summaryvars, factoryvars, flagvars, payloadvars>>
    /\ UNCHANGED <<flowvars, processed_messages, vendor_token, send_budget>>

\* refresh_access_token(current_token, user_id)
SendRefresh ==
    /\ snd.pc = "refresh"
    /\ \E outcome \in RefreshOutcomes :
         LET s == [snd EXCEPT !.refreshes = Min(@ + 1, MaxAttempts)]
             new_access_token == Min(vendor_token + 1, MaxSendCalls + MaxAttempts)
         IN IF outcome = "saved"
            THEN /\ vendor_token' = new_access_token
                 /\ snd' = [s EXCEPT !.pc = "retry", !.new_token = new_access_token]
            ELSE /\ snd' = Returned(s, "False")
                 /\ UNCHANGED vendor_token
    /\ UNCHANGED <<summaryvars, factoryvars, flagvars, payloadvars>>
    /\ UNCHANGED <<flowvars, processed_messages, send_budget>>

\* the retry posts again, with the new token and everything else as before
RetryPosts(s) == [s EXCEPT !.pc = "post", !.access_token = s.new_token]
\* retry_function(brideside_user.id, sender_id, message, access_token=new_token):
\* message_id and sender_username are missing, the TypeError is caught, None
\* comes back and the send returns False
RetryCall(s) == Returned(s, "False")

SendRetry ==
    /\ snd.pc = "retry"
    /\ snd' = RetryCall(snd)
    /\ UNCHANGED <<summaryvars, factoryvars, flagvars, payloadvars>>
    /\ UNCHANGED <<flowvars, processed_messages, vendor_token, send_budget>>

\* the caller has the result
SendReturn ==
    /\ snd.pc = "done"
    /\ snd' = NoSend
    /\ UNCHANGED <<summaryvars, factoryvars, flagvars, payloadvars>>
    /\ UNCHANGED <<flowvars, processed_messages, vendor_token, send_budget>>

(***************************************************************************)
(* repository/conversation_repository.py and the places that write the     *)
(* conversation summary of a deal: the request's create after create_deal,  *)
(* the provider's _save_conversation_to_db, and the get / update / create   *)
(* blocks of _handle_user_message_flow.  A text is a sequence of pieces.    *)
(***************************************************************************)
NL == "nl"                         \* "\n"
\* response.get('conversation_summary', '')
SummaryTexts == {<< >>, <<"x">>, <<"y">>}
IsPrefix(a, b) == Len(a) <= Len(b) /\ SubSeq(b, 1, Len(a)) = a
RECURSIVE Strip(_)
Strip(t) ==
    IF t = << >> THEN t
    ELSE IF Head(t) = NL THEN Strip(Tail(t))
    ELSE IF t[Len(t)] = NL THEN Strip(SubSeq(t, 1, Len(t) - 1))
    ELSE t
\* filter_by(deal_id=deal_id).first()
get_conversation_summary_by_deal_id(rows) ==
    [found |-> rows # << >>, text |-> IF rows = << >> THEN << >> ELSE Head(rows)]
\* session.add(summary): nothing stops a second row for the deal
create_conversation_summary(rows, conversation_summary) == Append(rows, conversation_summary)
\* setattr(summary, 'deals_conversation_summary', new_summary) on the first row
update_conversation_summary(rows, new_summary) ==
    IF rows = << >> THEN rows ELSE [rows EXCEPT ![1] = new_summary]
Aborted(r) == [r EXCEPT !.pc = "done", !.failed = TRUE, !.status = 500]
AfterLead(r) == IF r.saves THEN "ai_get" ELSE "get"

\* A request for the deal arrives: it creates the deal if there is none (the
\* path of a new sender, or of a registered sender without deal), and the
\* collaborator will answer with a summary text; saves: the configured
\* provider saves the conversation itself; guarded: the block the request
\* reaches is under `if conversation_summary_text:`
SummaryBegin(h) ==
    /\ ws[h].pc = "idle"
    /\ summary_budget > 0
    /\ summary_budget' = summary_budget - 1
    /\ lead' = TRUE
    /\ \E text \in SummaryTexts, saves \in BOOLEAN, guarded \in BOOLEAN,
          path \in IF lead THEN {"existing"} ELSE {"new", "registered_new"} :
         LET r == [NoWrites EXCEPT !.text = text, !.saves = saves, !.guarded = guarded]
         IN ws' = [ws EXCEPT ![h] =
                     [r EXCEPT !.pc = IF path = "new" THEN "created" ELSE AfterLead(r)]]
    /\ UNCHANGED summaries
    /\ UNCHANGED <<flowvars, processed_messages, sendvars, factoryvars, flagvars, payloadvars>>

\* right after create_deal: create_conversation_summary(..., ""), which
\* raises when the insert fails
SummaryCreated(h) ==
    /\ ws[h].pc = "created"
    /\ \E ok \in BOOLEAN :
         IF ok
         THEN /\ summaries' = create_conversation_summary(summaries, << >>)
              /\ ws' = [ws EXCEPT ![h].pc = AfterLead(ws[h])]
         ELSE /\ ws' = [ws EXCEPT ![h] = Aborted(ws[h])]
              /\ UNCHANGED summaries
    /\ UNCHANGED <<lead, summary_budget>>
    /\ UNCHANGED <<flowvars, processed_messages, sendvars, factoryvars, flagvars, payloadvars>>

\* _save_conversation_to_db: the read
AiGet(h) ==
    /\ ws[h].pc = "ai_get"
    /\ LET summary == get_conversation_summary_by_deal_id(summaries)
       IN ws' = [ws EXCEPT ![h].pc = "ai_put", ![h].found = summary.found,
                           ![h].read = summary.text]
    /\ UNCHANGED <<summaries, lead, summary_budget>>
    /\ UNCHANGED <<flowvars, processed_messages, sendvars, factoryvars, flagvars, payloadvars>>

\* _save_conversation_to_db: the create if nothing was read, and the update
\* with what was read + "\n" + the new text; a failure is caught and logged
AiPut(h) ==
    /\ ws[h].pc = "ai_put"
    /\ \E ok \in BOOLEAN :
         LET r == ws[h]
             rows == IF r.found THEN summaries
                     ELSE create_conversation_summary(summaries, << >>)
             new_summary == r.read \o <<NL>> \o r.text
         IN IF ok
            THEN /\ summaries' = update_conversation_summary(rows, new_summary)
                 /\ ws' = [ws EXCEPT ![h].pc = "get"]
            ELSE /\ ws' = [ws EXCEPT ![h].pc = "get", ![h].failed = TRUE]
                 /\ UNCHANGED summaries
    /\ UNCHANGED <<lead, summary_budget>>
    /\ UNCHANGED <<flowvars, processed_messages, sendvars, factoryvars, flagvars, payloadvars>>

\* `summary = get_conversation_summary_by_deal_id(deal.id)`
SiteGet(h) ==
    /\ ws[h].pc = "get"
    /\ LET summary == get_conversation_summary_by_deal_id(summaries)
       IN ws' = IF ws[h].guarded /\ ws[h].text = << >>
                THEN [ws EXCEPT ![h].pc = "reply"]
                ELSE [ws EXCEPT ![h].pc = "put", ![h].found = summary.found,
                                ![h].read = summary.text]
    /\ UNCHANGED <<summaries, lead, summary_budget>>
    /\ UNCHANGED <<flowvars, processed_messages, sendvars, factoryvars, flagvars, payloadvars>>

\* `if summary: update_conversation_summary(new_summary=text.strip())
\*  else: create_conversation_summary(conversation_summary=text)`.  A failed
\* update returns False and is ignored, a failed create raises.
SitePut(h) ==
    /\ ws[h].pc = "put"
    /\ \E ok \in BOOLEAN :
         LET r == ws[h]
         IN IF ok
            THEN /\ summaries' = IF r.found
                                 THEN update_conversation_summary(summaries, Strip(r.text))
                                 ELSE create_conversation_summary(summaries, r.text)
                 /\ ws' = [ws EXCEPT ![h].pc = "reply"]
            ELSE /\ ws' = [ws EXCEPT ![h] =
                             IF r.found THEN [r EXCEPT !.pc = "reply", !.failed = TRUE]
                             ELSE Aborted(r)]
                 /\ UNCHANGED summaries
    /\ UNCHANGED <<lead, summary_budget>>
    /\ UNCHANGED <<flowvars, processed_messages, sendvars, factoryvars, flagvars, payloadvars>>

\* the reply is sent and the request ends with 200
SummaryReply(h) ==
    /\ ws[h].pc = "reply"
    /\ ws' = [ws EXCEPT ![h].pc = "done", ![h].replied = TRUE, ![h].status = 200]
    /\ UNCHANGED <<summaries, lead, summary_budget>>
    /\ UNCHANGED <<flowvars, processed_messages, sendvars, factoryvars, flagvars, payloadvars>>

SummaryReturn(h) ==
    /\ ws[h].pc = "done"
    /\ ws' = [ws EXCEPT ![h] = NoWrites]
    /\ UNCHANGED <<summaries, lead, summary_budget>>
    /\ UNCHANGED <<flowvars, processed_messages, sendvars, factoryvars, flagvars, payloadvars>>

\* One conversation: requests handled one after another, every message
\* delivered once, every answer of the collaborator.
Next ==
    \/ \E h \in SeqHandlers : Receive(h, {OtherId}, IngressKinds, NoFaults, Tenants)
    \/ \E h \in SeqHandlers : MarkQuery(h)
    \/ \E h \in SeqHandlers : MarkCommit(h)
    \/ \E h \in SeqHandlers : FlowLookup(h)
    \/ \E h \in SeqHandlers : FlowCreate(h)
    \/ \E h \in SeqHandlers : FlowAct(h, TRUE)
    \/ \E h \in SeqHandlers : Return(h)

\* Redelivery: requests handled one after another, messages delivered again
\* (at once or after the cleanup cutoff), with and without a message id.
NextRedelivery ==
    \/ \E h \in SeqHandlers : Receive(h, MidInputs, IngressEvents, SUBSET Classifiers, Tenants)
    \/ \E h \in SeqHandlers : MarkQuery(h)
    \/ \E h \in SeqHandlers : MarkCommit(h)
    \/ \E h \in SeqHandlers : FlowLookup(h)
    \/ \E h \in SeqHandlers : FlowCreate(h)
    \/ \E h \in SeqHandlers : FlowAct(h, FALSE)
    \/ \E h \in SeqHandlers : Return(h)
    \/ Age

\* Requests handled concurrently in two slots.
NextConc ==
    \/ \E h \in Handlers : Receive(h, ConcMids, ConcIngress, NoFaults, Tenants)
    \/ \E h \in Handlers : MarkQuery(h)
    \/ \E h \in Handlers : MarkCommit(h)
    \/ \E h \in Handlers : FlowLookup(h)
    \/ \E h \in Handlers : FlowCreate(h)
    \/ \E h \in Handlers : FlowAct(h, FALSE)
    \/ \E h \in Handlers : Return(h)
    \/ Age

\* One sender writing to the accounts of two tenants.
NextTenants ==
    \/ \E h \in SeqHandlers : Receive(h, {OtherId}, TenantIngress, NoFaults, BothTenants)
    \/ \E h \in SeqHandlers : MarkQuery(h)
    \/ \E h \in SeqHandlers : MarkCommit(h)
    \/ \E h \in SeqHandlers : FlowLookup(h)
    \/ \E h \in SeqHandlers : FlowCreate(h)
    \/ \E h \in SeqHandlers : FlowAct(h, FALSE)
    \/ \E h \in SeqHandlers : Return(h)

\* Calls of send_instagram_message, one after another.
NextSend ==
    \/ SendCall
    \/ SendPost
    \/ SendCheck
    \/ SendRefresh
    \/ SendRetry
    \/ SendReturn

\* Requests for one deal, handled concurrently in two slots, as far as the
\* conversation summary is concerned.
NextSummary ==
    \/ \E h \in Handlers : SummaryBegin(h)
    \/ \E h \in Handlers : SummaryCreated(h)
    \/ \E h \in Handlers : AiGet(h)
    \/ \E h \in Handlers : AiPut(h)
    \/ \E h \in Handlers : SiteGet(h)
    \/ \E h \in Handlers : SitePut(h)
    \/ \E h \in Handlers : SummaryReply(h)
    \/ \E h \in Handlers : SummaryReturn(h)

(***************************************************************************)
(* A request as far as AIServiceFactory is concerned.                      *)
(***************************************************************************)
\* an event for a tenant arrives; the tenant's row is read from brideside_vendors
FactoryReceive ==
    /\ fq.pc = "idle" /\ factory_budget > 0
    /\ \E brideside_user_id \in VendorIds, row \in VendorRows :
          fq' = [NoFactoryRequest EXCEPT !.pc = "ingress",
                                         !.brideside_user_id = brideside_user_id,
                                         !.row = row]
    /\ factory_budget' = factory_budget - 1
    /\ UNCHANGED _instances
    /\ UNCHANGED <<flowvars, processed_messages, sendvars, summaryvars, flagvars, payloadvars>>
\* _should_skip_message asks for the client of the utility functions, then
\* drops the event or lets it through
FactoryIngress ==
    /\ fq.pc = "ingress"
    /\ LET made == create_service(_instances, basic_service_config)
       IN /\ _instances' = made.instances
          /\ \E skip \in BOOLEAN :
                fq' = [fq EXCEPT !.pc = IF skip THEN "done" ELSE "flow",
                                 !.basic = made.instance]
    /\ UNCHANGED factory_budget
    /\ UNCHANGED <<flowvars, processed_messages, sendvars, summaryvars, flagvars, payloadvars>>
\* _handle_user_message_flow asks for the tenant's client and extracts with it
FactoryFlow ==
    /\ fq.pc = "flow"
    /\ LET made == create_service(_instances,
                                  default_service_config(fq.brideside_user_id, fq.row))
       IN /\ _instances' = made.instances
          /\ fq' = [fq EXCEPT !.pc = "done", !.client = made.instance]
    /\ UNCHANGED factory_budget
    /\ UNCHANGED <<flowvars, processed_messages, sendvars, summaryvars, flagvars, payloadvars>>
FactoryReturn ==
    /\ fq.pc = "done"
    /\ fq' = NoFactoryRequest
    /\ UNCHANGED <<_instances, factory_budget>>
    /\ UNCHANGED <<flowvars, processed_messages, sendvars, summaryvars, flagvars, payloadvars>>

NextFactory ==
    \/ FactoryReceive
    \/ FactoryIngress
    \/ FactoryFlow
    \/ FactoryReturn

(***************************************************************************)
(* The reads of a Lead's flags that decide what the handler does.          *)
(***************************************************************************)
\* the Lead is complete: `if not final_thank_you_sent` decides whether the
\* acknowledgment is sent
ReadFinalThankYou ==
    /\ flag_reads.pc = "idle"
    /\ LET final_thank_you_sent == flag_values.final_thank_you_sent
       IN flag_reads' = [flag_reads EXCEPT !.pc = "final",
                                           !.sends_final = ~TruthValue(final_thank_you_sent)]
    /\ UNCHANGED flag_values
    /\ UNCHANGED <<flowvars, processed_messages, sendvars, summaryvars, factoryvars, payloadvars>>
\* the Lead misses fields: the asked flags decide whether the reply is held back
ReadAskedFlags ==
    /\ flag_reads.pc = "idle"
    /\ flag_reads' = [flag_reads EXCEPT !.pc = "asked",
                                        !.asked = {f \in AskedFlags : _safe_bool(flag_values[f])}]
    /\ UNCHANGED flag_values
    /\ UNCHANGED <<flowvars, processed_messages, sendvars, summaryvars, factoryvars, payloadvars>>

NextFlags ==
    \/ ReadFinalThankYou
    \/ ReadAskedFlags

(***************************************************************************)
(* _handle_post_request: from the body to the event it processes.          *)
(***************************************************************************)
\* events: what is handed to _should_skip_message and the flow
HandlePost ==
    /\ dispatch.pc = "idle"
    /\ LET checked == _validate_webhook_data(data)
       IN dispatch' =
            IF ~checked.is_valid
            THEN [pc |-> "done", events |-> << >>, status |-> 200,
                  error_msg |-> checked.error_msg]
            ELSE [pc |-> "done", events |-> messaging_event(data), status |-> 200,
                  error_msg |-> ""]
    /\ UNCHANGED data
    /\ UNCHANGED <<flowvars, processed_messages, sendvars, summaryvars, factoryvars, flagvars>>

NextPayload == HandlePost

Spec == Init /\ [][Next]_vars
SpecRedelivery == Init /\ [][NextRedelivery]_vars
SpecConc == InitConc /\ [][NextConc]_vars
SpecTenants == Init /\ [][NextTenants]_vars
SpecSend == InitSend /\ [][NextSend]_vars
SpecSummary == InitSummary /\ [][NextSummary]_vars
SpecFactory == InitFactory /\ [][NextFactory]_vars
SpecFlags == InitFlags /\ [][NextFlags]_vars
SpecPayload == InitPayload /\ [][NextPayload]_vars

(***************************************************************************)
(* Properties.                                                             *)
(***************************************************************************)
\* the step of slot h that ends the flow of its request
ActStep(h) == hs[h].pc = "act" /\ hs'[h].pc = "done"
\* the step of slot h that accepts a request
ReceiveStep(h) == hs[h].pc = "idle" /\ hs'[h].pc # "idle"
Complete(deal) == _get_missing_fields_from_deal(deal) = {}

\* C1 as stated: per message id at most one request sends a text or writes
\* the Lead, after any sequence of deliveries.
C1_AtMostOneProcessing == \A m \in MessageIds : processings[m] <= 1

\* C1 as amended: a delivery whose non-empty message id still has its row in
\* the ledger ends at the ledger read: it sends nothing and leaves every
\* Lead as it was.
C1_RecordedIdIsDropped ==
    [][\A h \in Handlers :
         (ReceiveStep(h) /\ hs'[h].reason # "skipped"
            /\ hs'[h].mid # "" /\ HasRow(processed_messages, hs'[h].mid))
         => (hs'[h].pc = "done" /\ hs'[h].out = << >> /\ deals' = deals
             /\ processings' = processings)]_vars
\* a message id that was processed is delivered again and dropped
C1_Witness ==
    \E h \in Handlers :
        /\ hs[h].pc = "done" /\ hs[h].ledger_hit /\ hs[h].out = << >>
        /\ hs[h].mid \in MessageIds /\ processings[hs[h].mid] = 1

\* C2: of two requests in flight for the same message id at most one is
\* past the ledger write, in conversation handling.
C2_OnePastLedger ==
    \A h1, h2 \in Handlers :
        (h1 # h2 /\ InFlow(hs[h1]) /\ InFlow(hs[h2]) /\ hs[h1].mid \in MessageIds)
        => hs[h1].mid # hs[h2].mid

\* the Lead of the request in slot h, as persisted before and after a step
DealOf(h) == deals[hs[h].deal_id]
DealAfter(h) == deals'[hs[h].deal_id]

\* C3: anti-nag law.  Whenever the flow of a request ends, for every
\* required field F of its Lead: if F's asked flag was true, F was empty and
\* the message did not supply F, nothing was sent.
C3_AntiNag ==
    [][\A h \in Handlers : \A F \in RequiredFields :
         (ActStep(h) /\ hs[h].deal_id # NoDeal
            /\ DealOf(h)[AskedFlagOf[F]] /\ Blank(DealOf(h)[F])
            /\ F \notin hs'[h].supplied)
         => hs'[h].out = << >>]_vars

\* C4: over the messages of one conversation, handled one after another, no
\* Lead is sent the completion acknowledgment more than once.
C4_AckAtMostOnce == \A i \in 1..Len(acks) : acks[i] <= 1

\* C5: final_thank_you_sent never goes from true to false, on any Lead and
\* in any step.
C5_FinalNeverReverts ==
    [][\A i \in 1..Len(deals) :
         deals[i].final_thank_you_sent => deals'[i].final_thank_you_sent]_vars
\* a message was handled for a Lead whose flag was already true
C5_Witness ==
    \E h \in Handlers :
        /\ hs[h].pc = "done" /\ hs[h].reason = "flow" /\ hs[h].final_seen
        /\ hs[h].path \in {"existing", "unregistered_existing"}
        /\ hs[h].wrote
        /\ DealOf(h).final_thank_you_sent

\* C6: ask/reset law.  If F's asked flag is true when a message is handled
\* and the message supplies F, the flag is false in the Lead persisted when
\* the flow ends.
C6_AskReset ==
    [][\A h \in Handlers : \A F \in RequiredFields :
         (ActStep(h) /\ hs[h].deal_id # NoDeal
            /\ DealOf(h)[AskedFlagOf[F]] /\ F \in hs'[h].supplied)
         => ~DealAfter(h)[AskedFlagOf[F]]]_vars

\* C7: in every persisted Lead, a required field whose asked flag is true
\* is empty.
C7_AskedOnlyIfEmpty ==
    \A i \in 1..Len(deals) : \A F \in RequiredFields :
        deals[i][AskedFlagOf[F]] => Blank(deals[i][F])

\* C8: at most one Lead exists per (sender, tenant), also when first
\* messages of one sender are handled concurrently.
C8_OneLeadPerSender ==
    \A i, j \in 1..Len(deals) :
        (deals[i].name = deals[j].name /\ deals[i].contacted_to = deals[j].contacted_to)
        => i = j
\* two requests of the same new sender raced and the second insert was refused
C8_Witness ==
    \E h \in Handlers :
        /\ hs[h].pc = "done"
        /\ hs[h].reason \in {"Processed", "Failed to create deal"}
        /\ Cardinality(DealRows(deals, hs[h].sender, hs[h].tenant)) = 1

\* C9: for an existing Lead that misses only phone_number, a message that
\* supplies a phone number leaves the phone persisted, contact_number_asked
\* false and final_thank_you_sent true, and one acknowledgment is sent.
C9_PhoneCompletes ==
    [][\A h \in Handlers :
         (ActStep(h) /\ hs[h].path \in {"existing", "unregistered_existing"}
            /\ hs[h].missing_fields = {"phone_number"}
            /\ "phone_number" \in hs'[h].supplied)
         => /\ ~Blank(DealAfter(h).phone_number)
            /\ ~DealAfter(h).contact_number_asked
            /\ DealAfter(h).final_thank_you_sent
            /\ Len(hs'[h].out) = 1 /\ CountAcks(hs'[h].out) = 1]_vars

\* C10: when the Lead of a request is complete and its final_thank_you_sent
\* is true, the flow of the request sends nothing.
C10_SilentAfterCompletion ==
    [][\A h \in Handlers :
         (ActStep(h) /\ hs[h].deal_id # NoDeal /\ Complete(DealOf(h))
            /\ DealOf(h).final_thank_you_sent)
         => hs'[h].out = << >>]_vars
\* a further message of a completed, acknowledged Lead was handled in silence
C10_Witness ==
    \E h \in Handlers :
        /\ hs[h].pc = "done" /\ hs[h].reason = "flow" /\ hs[h].path = "complete"
        /\ hs[h].final_seen /\ hs[h].out = << >>
        /\ Complete(DealOf(h)) /\ DealOf(h).final_thank_you_sent

\* the step of slot h in which the anti-nag rule suppresses the reply: the
\* collaborator answered with a text, a required field of the Lead was asked,
\* is empty and is not supplied, and nothing is sent
SuppressedStep(h) ==
    /\ ActStep(h) /\ hs[h].path = "existing"
    /\ hs'[h].response.has_message /\ hs'[h].out = << >>
    /\ \E F \in RequiredFields :
          DealOf(h)[AskedFlagOf[F]] /\ Blank(DealOf(h)[F]) /\ F \notin hs'[h].supplied
\* the column of the Lead that holds a collected field
ColumnOf(f) == IF f = "full_name" THEN "user_name" ELSE f

\* C11: when the anti-nag rule suppresses the reply, every non-empty field
\* extracted from the message is the value of its column in the Lead
\* afterwards.
C11_SuppressedStillWritten ==
    [][\A h \in Handlers :
         SuppressedStep(h)
         => LET x == ExtractedFields(hs'[h].response)
            IN \A f \in DOMAIN x : DealAfter(h)[ColumnOf(f)] = x[f]]_vars

\* the date texts that carry no 4-digit year
YearlessDates == {"NY", "MD"}

\* C12: when the date texts extracted from a message (by the collaborator
\* and by the keyword heuristics) carry no 4-digit year, handling the message
\* stores no date: event_date of the Lead is afterwards what it was, or empty.
C12_YearlessDateNotStored ==
    [][\A h \in Handlers :
         (ActStep(h) /\ hs[h].deal_id # NoDeal
            /\ hs'[h].response.event_date \in YearlessDates
            /\ hs'[h].basic.fields.event_date \in YearlessDates \cup {""})
         => DealAfter(h).event_date \in {DealOf(h).event_date, ""}]_vars

\* C13: when the collaborator's message_to_be_sent is the sentinel
\* NO_MESSAGE, handling the message sends nothing.
C13_NoMessageSendsNothing ==
    [][\A h \in Handlers :
         (ActStep(h) /\ hs'[h].response.has_message
            /\ hs'[h].response.message_to_be_sent = NO_MESSAGE)
         => hs'[h].out = << >>]_vars

\* the request in record r ended after create_person_entry or create_deal
\* had failed
CreateFailed(r) ==
    r.pc = "done" /\ r.reason \in {"Failed to create person", "Failed to create deal", "Processed"}

\* C19: a request during which a persistence operation failed (creating the
\* person or the Lead) is answered with HTTP 200.
C19_PersistenceFailureAnswered200 ==
    \A h \in Handlers : CreateFailed(hs[h]) => hs[h].status = 200

\* C20: the deduplication check comes first.  When an event arrives whose
\* message id has its row in the ledger, no classification collaborator is
\* consulted and no table is written.
C20_DuplicateDroppedFirst ==
    [][\A h \in Handlers :
         (ReceiveStep(h) /\ hs'[h].mid # "" /\ HasRow(processed_messages, hs'[h].mid))
         => /\ ~hs'[h].classified
            /\ course_related_users' = course_related_users
            /\ deals' = deals /\ instagram_users' = instagram_users
            /\ processed_messages' = processed_messages]_vars

\* C14: when the first attempt of a send fails with 401 or 403, the refresh
\* is invoked exactly once, and if it gave a new credential the send was
\* attempted a second time and the stored credential is the new one.
C14_RefreshAndRetryOnce ==
    (snd.pc = "done" /\ snd.first_status \in AuthFailures)
    => /\ snd.refreshes = 1
       /\ snd.new_token # 0 => (snd.posts = 2 /\ vendor_token = snd.new_token)

\* C15: one send call makes at most two HTTP attempts and at most one
\* refresh call, and it ends with a value for its caller: False when no
\* attempt was answered 200.
C15_BoundedAttempts ==
    /\ snd.posts <= 2
    /\ snd.refreshes <= 1
    /\ snd.pc = "done" => snd.result \in {"True", "False"}
    /\ (snd.pc = "done" /\ snd.first_status # 200) => snd.result = "False"
\* a call whose attempt was refused, whose refresh gave a new token, and
\* which returned False
C15_Witness ==
    /\ snd.pc = "done" /\ snd.first_status \in AuthFailures
    /\ snd.posts = 1 /\ snd.refreshes = 1 /\ snd.new_token # 0
    /\ snd.result = "False"

\* C16: once the deal has a summary row, every write keeps each stored text
\* as a prefix of the text stored afterwards, and no row goes away.
C16_SummaryAppendOnly ==
    [][summaries # << >>
       => /\ Len(summaries') >= Len(summaries)
          /\ \A i \in 1..Len(summaries) : IsPrefix(summaries[i], summaries'[i])]_vars

\* C17: a request whose summary write failed ends as it would have without
\* the failure: the reply is sent and the answer is 200.
C17_SummaryFailureHarmless ==
    \A h \in Handlers :
       (ws[h].pc = "done" /\ ws[h].failed) => (ws[h].replied /\ ws[h].status = 200)

\* C18: the deal has at most one summary row, whatever the requests and
\* however they interleave.
C18_OneSummaryPerLead == Len(summaries) <= 1

\* the checks in the order (a) .. (h)
CheckOrder == <<"self", "vendor", "no_text", "story", "flagged", "course", "collab",
                "unrelated">>
\* the check would drop the event the slot has just received
CheckMatches(h, c) ==
    LET r == hs'[h]
    IN CASE c = "flagged" -> is_course_related_user(course_related_users, r.sender)
         [] c = "unrelated" -> /\ ClassifierAnswer(r.ingress, r.raises, c)
                               /\ ~is_user_present(instagram_users, r.sender, r.tenant)
         [] c = "course" -> ClassifierAnswer(r.ingress, r.raises, c)
         [] OTHER -> c \in r.ingress
MatchingChecks(h) == {i \in 1..Len(CheckOrder) : CheckMatches(h, CheckOrder[i])}
FirstMatch(h) == CHOOSE i \in MatchingChecks(h) : \A j \in MatchingChecks(h) : i <= j
\* C21: for an event of a resolved tenant, the first check in the order
\* (a) .. (h) that matches is the one that drops it, no classifier of a later
\* check is invoked, and the sender is marked only if that check is (f) or (g).
C21_FirstMatchDecides ==
    [][\A h \in Handlers :
         (ReceiveStep(h) /\ hs'[h].ingress \cap {"invalid", "no_vendor"} = {})
         => IF MatchingChecks(h) = {}
            THEN hs'[h].skip_reason = "" /\ course_related_users' = course_related_users
            ELSE /\ hs'[h].skip_reason = CheckOrder[FirstMatch(h)]
                 /\ hs'[h].invoked \subseteq {CheckOrder[i] : i \in 1..FirstMatch(h)}
                 /\ course_related_users' # course_related_users
                      => CheckOrder[FirstMatch(h)] \in {"course", "collab"}
                 /\ hs'[h].out = << >>]_vars
\* an event that two checks match, dropped by the earlier one
C21_Witness ==
    \E h \in Handlers :
       /\ hs[h].pc = "done" /\ hs[h].skip_reason = "course"
       /\ hs[h].ingress = {"course", "collab"}
       /\ hs[h].invoked = {"course"}

Excluding(h) ==
    LET r == hs'[h]
        present == is_user_present(instagram_users, r.sender, r.tenant)
    IN {c \in r.ingress \ r.raises : c # "unrelated" \/ ~present}
          \cup (IF r.sender \in course_related_users THEN {"flagged"} ELSE {})
\* C23: when a classifier's call fails, the event is not dropped by that
\* classifier, and if nothing else drops it the request goes on to the ledger
\* and the conversation.
C23_ClassifierFailsOpen ==
    [][\A h \in Handlers :
         (ReceiveStep(h) /\ hs'[h].raises # {})
         => /\ hs'[h].skip_reason \notin hs'[h].raises
            /\ Excluding(h) = {}
                 => /\ hs'[h].skip_reason = ""
                    /\ hs'[h].pc \in {"mark", "lookup"} \/ hs'[h].ledger_hit]_vars
\* a request in the conversation whose course classifier failed on a text it
\* would have called a course enquiry
C23_Witness ==
    \E h \in Handlers :
       /\ hs[h].pc = "act" /\ hs[h].raises = {"course"} /\ hs[h].ingress = {"course"}

\* C24: an event that only the out-of-catalog classifier would drop, from a
\* sender who is not marked, is dropped exactly when the sender has no deal
\* with the tenant.
C24_CatalogCheckIffNoLead ==
    [][\A h \in Handlers :
         (ReceiveStep(h) /\ hs'[h].ingress = {"unrelated"} /\ hs'[h].raises = {}
            /\ hs'[h].sender \notin course_related_users)
         => (hs'[h].skip_reason = "unrelated"
               <=> get_deal_by_user_name(deals, hs'[h].sender, hs'[h].tenant) = NoDeal)]_vars

\* C25: when the answer for a message carries a value for a collected field
\* that differs from the value stored on the deal, the deal holds the new
\* value afterwards and the field's asked flag, if it has one, is false.
C25_ChangedValueReplaces ==
    [][\A h \in Handlers :
         (ActStep(h) /\ hs[h].path \in {"existing", "unregistered_existing"})
         => LET x == ExtractedFields(hs'[h].response)
            IN \A f \in DOMAIN x :
                 (~Blank(DealOf(h)[ColumnOf(f)]) /\ x[f] # DealOf(h)[ColumnOf(f)])
                 => /\ DealAfter(h)[ColumnOf(f)] = x[f]
                    /\ f \in RequiredFields => ~DealAfter(h)[AskedFlagOf[f]]]_vars

\* the greeting sequence and the greeting-plus-remainder messages
StaticGreetings == {GREETING_SEQ, HELLO_TEXT, HELLO_CONNECT}
\* C26: a request that found the sender's deal already there sends no static
\* greeting.
C26_GreetingOnlyOnFirstMessage ==
    [][\A h \in Handlers :
         (ActStep(h) /\ hs[h].path \in {"existing", "unregistered_existing", "complete"})
         => \A i \in 1..Len(hs'[h].out) : hs'[h].out[i] \notin StaticGreetings]_vars

\* ---- the static greeting sequence ----
MaxTemplates == 3
TemplateTexts == {"A", "B"}
\* the greeting_templates rows of one tenant, one row per template_order
TemplateTables ==
    {t \in SUBSET [template_order : 1..MaxTemplates, template_text : TemplateTexts] :
        \A a, b \in t : a.template_order = b.template_order => a = b}
FALLBACK_GREETINGS == <<"Hi there!", "Hope you are doing good!", "Welcome to The Bride Side">>
RECURSIVE OrderBy(_)
\* .order_by(GreetingTemplate.template_order)
OrderBy(rows) ==
    IF rows = {} THEN << >>
    ELSE LET first == CHOOSE a \in rows :
                        \A b \in rows : a.template_order <= b.template_order
         IN <<first.template_text>> \o OrderBy(rows \ {first})
RECURSIVE Unordered(_)
Unordered(rows) ==
    IF rows = {} THEN << >>
    ELSE LET first == CHOOSE a \in rows :
                        \A b \in rows : a.template_order >= b.template_order
         IN <<first.template_text>> \o Unordered(rows \ {first})
get_greeting_templates_by_user_id(rows) == OrderBy(rows)
\* the texts sent, one send per template, in list order; the static list
\* when the tenant has no template
send_initial_greetings_message(rows) ==
    LET greeting_templates == get_greeting_templates_by_user_id(rows)
    IN IF greeting_templates = << >> THEN FALLBACK_GREETINGS ELSE greeting_templates
\* the text of the row that has i-1 rows before it in template order
NthTemplate(rows, i) ==
    (CHOOSE a \in rows :
        Cardinality({b \in rows : b.template_order < a.template_order}) = i - 1).template_text
InTemplateOrder(rows) ==
    LET sent == send_initial_greetings_message(rows)
    IN IF rows = {} THEN sent = FALLBACK_GREETINGS
       ELSE /\ Len(sent) = Cardinality(rows)
            /\ \A i \in 1..Len(sent) : sent[i] = NthTemplate(rows, i)
\* the message is a plain greeting: the collaborator flags it as a greeting
\* and reports no field, no structured data and no other reply
PlainGreeting(response) ==
    /\ response.is_greeting_message
    /\ ~StructuredData(response)
    /\ DOMAIN ExtractedFields(response) = {} /\ DOMAIN RawFields(response) = {}
    /\ ProvidedFields(response) = {}
CollectedColumns == {"user_name", "event_type", "event_date", "venue", "phone_number"}

\* C27: when a sender without a Lead sends a plain greeting as the first
\* message, the Lead is created with every collected field empty and every
\* asked flag false, and the static greeting sequence is sent, its templates
\* in template order.
C27_PlainGreetingCreatesEmptyLead ==
    [][\A h \in Handlers :
         (ActStep(h) /\ hs[h].path \in {"new", "registered_new"}
            /\ PlainGreeting(hs'[h].response))
         => /\ hs'[h].out = <<GREETING_SEQ>>
            /\ \A c \in CollectedColumns : Blank(DealAfter(h)[c])
            /\ \A F \in RequiredFields : ~DealAfter(h)[AskedFlagOf[F]]
            /\ \A rows \in TemplateTables : InTemplateOrder(rows)]_vars
\* a first plain greeting was answered with the greeting sequence
C27_Witness ==
    \E h \in Handlers :
        /\ hs[h].pc = "done" /\ hs[h].path = "new"
        /\ PlainGreeting(hs[h].response) /\ hs[h].out = <<GREETING_SEQ>>
        /\ \A c \in CollectedColumns : Blank(DealOf(h)[c])

\* the flow of slot h ends for a Lead that had event_date, venue and
\* phone_number when the message arrived
CompleteOnArrival(h) ==
    ActStep(h) /\ hs[h].path \notin {"new", "registered_new"} /\ Complete(DealOf(h))

C29_ClientConfiguredForTenant ==
    (fq.pc = "done" /\ fq.client # NoInstance)
    => /\ fq.client.business_name = fq.row.business_name
       /\ fq.client.services = fq.row.services

\* C30: every read of a flag of the Lead that drives a decision depends on
\* the logical value only, whether the flag arrives as 0/1, as true/false
\* or as the one byte 0x00/0x01.
C30_FlagReadsIgnoreEncoding ==
    /\ flag_reads.pc = "final"
       => (flag_reads.sends_final <=> ~Logical(flag_values.final_thank_you_sent))
    /\ flag_reads.pc = "asked"
       => flag_reads.asked = {f \in AskedFlags : Logical(flag_values[f])}

\* C31: a required field (event_date, venue, phone_number) that is non-empty
\* on a Lead never becomes empty again, in any step; so a complete Lead stays
\* complete.
C31_RequiredFieldsStay ==
    [][\A i \in 1..Len(deals) : \A F \in RequiredFields :
         ~Blank(deals[i][F]) => ~Blank(deals'[i][F])]_vars

\* C32: once a Lead is complete, no step of the processing of a further
\* message changes any of its five collected fields.
C32_CompleteLeadFieldsFrozen ==
    [][\A i \in 1..Len(deals) :
         Complete(deals[i])
         => \A c \in CollectedColumns : deals'[i][c] = deals[i][c]]_vars
\* a further message of a complete Lead with all five fields was handled
C32_Witness ==
    \E h \in Handlers :
        /\ hs[h].pc = "done" /\ hs[h].reason = "flow" /\ hs[h].path = "complete"
        /\ \A c \in CollectedColumns : ~Blank(DealOf(h)[c])

\* C33: in every reachable state, final_thank_you_sent is true only on Leads
\* whose three required fields are all non-empty, whatever the extraction
\* collaborator returns.
C33_FinalOnlyWhenComplete ==
    \A i \in 1..Len(deals) : deals[i].final_thank_you_sent => Complete(deals[i])

\* C34: final_thank_you_sent goes from false to true only in a request whose
\* acknowledgment text was delivered, that is, whose send returned success.
C34_FinalOnlyAfterDelivery ==
    [][\A h \in Handlers :
         (ActStep(h) /\ hs[h].deal_id # NoDeal
            /\ ~DealOf(h).final_thank_you_sent /\ DealAfter(h).final_thank_you_sent)
         => \E i \in hs'[h].delivered : hs'[h].out[i] \in AckKinds]_vars

\* C35: an asked flag goes from false to true only in a request that sent a
\* message asking for that field with success.  Checked in its necessary
\* part: some message of the request was delivered.
C35_AskedOnlyAfterDelivery ==
    [][\A h \in Handlers : \A F \in RequiredFields :
         (ActStep(h) /\ hs[h].deal_id # NoDeal
            /\ ~DealOf(h)[AskedFlagOf[F]] /\ DealAfter(h)[AskedFlagOf[F]])
         => hs'[h].delivered # {}]_vars

\* C36: when the processing of a message ended in a failure response (HTTP
\* 500), a later delivery of the same message id is processed again: it is
\* not dropped as a duplicate.
C36_FailedIsProcessedAgain ==
    [][\A h \in Handlers :
         (ReceiveStep(h) /\ hs'[h].mid \in failed)
         => ~hs'[h].ledger_hit]_vars

\* C37: the cleanup of the ledger removes only rows older than its cutoff:
\* in every step, a message id whose row is younger than the cutoff is still
\* reported as processed afterwards, and a row that disappears was older.
C37_CleanupKeepsRecentRows ==
    [][\A m \in MessageIds :
         /\ processed_messages[m] = "new" => is_message_processed(processed_messages', m)
         /\ (is_message_processed(processed_messages, m)
               /\ ~is_message_processed(processed_messages', m))
            => processed_messages[m] = "old"]_vars
\* a request recorded its message id and ran the cleanup: the id is still
\* reported as processed
C37_Witness ==
    \E h \in Handlers :
        /\ hs[h].pc = "done" /\ hs[h].cleaned /\ hs[h].mid \in MessageIds
        /\ processed_messages[hs[h].mid] = "new"
        /\ is_message_processed(processed_messages, hs[h].mid)

\* C38: when the body of a POST carries more than one messaging event, only
\* the first event of the first entry is processed; no other event is
\* handed on, so none causes a send or a change of state.
C38_OnlyFirstEventProcessed ==
    dispatch.pc = "done"
    => /\ Len(dispatch.events) <= 1
       /\ dispatch.events # << >> => dispatch.events[1] = data[1][1]
\* a body with several events that have a message was handled
C38_Witness ==
    /\ dispatch.pc = "done" /\ Len(dispatch.events) = 1
    /\ Len(_extract_messaging_events(data)) > 1

\* C39: the non-lead marker is per tenant: a message is dropped because its
\* sender is marked only when the sender was marked while a message
\* addressed to the same tenant was handled.
C39_MarkerIsPerTenant ==
    [][\A h \in Handlers :
         (ReceiveStep(h) /\ hs'[h].skip_reason = "flagged")
         => course_related_vendor[hs'[h].sender] = hs'[h].tenant]_vars

\* C40: when two different messages for one complete Lead whose
\* final_thank_you_sent is false are handled concurrently, the
\* acknowledgment is sent at most once.
C40_ConcurrentAckOnce ==
    \A h1, h2 \in Handlers :
        (/\ h1 # h2
         /\ hs[h1].pc = "done" /\ hs[h2].pc = "done"
         /\ hs[h1].path = "complete" /\ hs[h2].path = "complete"
         /\ hs[h1].deal_id = hs[h2].deal_id
         /\ ~(hs[h1].mid = hs[h2].mid /\ hs[h1].mid \in MessageIds))
        => ~(hs[h1].out = <<FINAL>> /\ hs[h2].out = <<FINAL>>)
====
